---- MODULE Spec2Model ----
(***************************************************************************)
(* A model of the rustecal publish/subscribe layer.                        *)
(*                                                                         *)
(* Zero-copy sends (SpecPub, SpecPar): Publisher::send_payload_writer,     *)
(* the thread-local CURRENT_WRITER cell and the three C callbacks of       *)
(* payload_writer.rs, run by one thread with nesting and by several.       *)
(*                                                                         *)
(* Publisher lifecycle (SpecLife): Publisher::new, send, its Drop, the     *)
(* buffers behind the pointers given to the transport and the timestamp    *)
(* pointer of a send.                                                      *)
(*                                                                         *)
(* Subscriber side (SpecSub, SpecWire): TypedSubscriber::set_callback, its *)
(* Drop and the trampoline, run by an application thread and the           *)
(* transport's delivery thread.                                            *)
(*                                                                         *)
(* Publisher queries (SpecQuery): get_subscriber_count, get_topic_name,    *)
(* get_topic_id and get_data_type_information on a publisher in use.       *)
(*                                                                         *)
(* Format adapters (SpecAdapt): to_bytes and from_bytes of BytesMessage,   *)
(* JsonMessage<bool> and ProtobufMessage<Counter> as functions of their    *)
(* input.                                                                  *)
(*                                                                         *)
(* Payload writers (SpecWriter): write_full, write_modified and get_size   *)
(* of the benchmark's BinaryPayload and of a writer with the trait's       *)
(* default write_modified.                                                 *)
(*                                                                         *)
(* Typed publisher (SpecTyped): TypedPublisher::new, send,                 *)
(* send_payload_writer and the queries, each around the Publisher call it  *)
(* makes.                                                                  *)
(*                                                                         *)
(* Callback entry points outside a send (SpecStray), the subscriber from   *)
(* its construction (SpecBox), deliveries with null pointers (SpecNull) or *)
(* with a buffer the transport reuses (SpecCopy).                           *)
(***************************************************************************)
EXTENDS Integers, Sequences, FiniteSets, TLC

\* ------------------------------------------------------------------ bounds
NumThreads == 2
MaxSize == 2
MaxLen == 2
MaxDepth == 2
MaxCallbacks == 3
MaxDeliveries == 3
MaxPublishers == 2
MaxCalls == 2

Threads == 1..NumThreads

\* ================================================================ publisher

VARIABLES
    CURRENT_WRITER,  \* per thread-local cell, the stashed writer pointer or NoWriter
    borrows,    \* per cell, the outstanding RefCell shared borrows
    stack,      \* per thread, the send_payload_writer calls in progress (innermost last)
    unwinding,  \* per thread, a panic is propagating out of a nested send
    aborted     \* the process was aborted by a panic reaching an extern "C" frame

pubVars == <<CURRENT_WRITER, borrows, stack, unwinding, aborted>>

VARIABLES
    heap,        \* per closure box: "unalloc", "live" or "freed"
    user_data,   \* TypedSubscriber.user_data: the box the subscriber owns
    registered,  \* the transport holds a receive-callback registration
    regCtx,      \* the context pointer of that registration
    appPc,       \* where the application thread is in set_callback / drop
    dPc,         \* where the delivery thread is in the trampoline
    dCtx,        \* the user_data argument of the running trampoline call
    dArgs,       \* the other arguments of that call: the delivery
    dOut,        \* what that call has done so far
    deliveries,  \* trampoline calls made so far
    calls,       \* per closure, how often it was invoked
    uaf,         \* the trampoline dereferenced a freed box
    crashed      \* that dereference faulted

subVars == <<heap, user_data, registered, regCtx, appPc, dPc, dCtx, dArgs, dOut,
             deliveries, calls, uaf, crashed>>

VARIABLES
    pub,          \* the Publisher object: its state, handle and owned buffers
    lastNew,      \* the last Publisher::new: its arguments, what it did, its result
    eCAL,         \* per transport publisher handle: its state and what it refers to
    mem,          \* the heap buffers behind the pointers given to the transport
    deleteCalls,  \* calls of eCAL_Publisher_Delete so far
    snd           \* the Publisher::send call in progress

lifeVars == <<pub, lastNew, eCAL, mem, deleteCalls, snd>>

VARIABLES
    qry   \* the last query on the publisher: what the transport answered, its result

qryVars == <<qry>>

VARIABLES
    adp   \* a Format Adapter call: the message type, its input and its outcome

adaptVars == <<adp>>

VARIABLES
    wrt   \* a PayloadWriter call: the writer, the buffer and the outcome

writerVars == <<wrt>>

VARIABLES
    typed   \* the TypedPublisher<T>: whether it exists, the call on it, its result

typedVars == <<typed>>

\* What each part of the model leaves alone.
nonPubVars == <<subVars, lifeVars, qryVars, adaptVars, writerVars, typedVars>>
nonSubVars == <<pubVars, lifeVars, qryVars, adaptVars, writerVars, typedVars>>
nonLifeVars == <<pubVars, subVars, qryVars, adaptVars, writerVars, typedVars>>
nonAdaptVars == <<pubVars, subVars, lifeVars, qryVars, writerVars, typedVars>>
nonWriterVars == <<pubVars, subVars, lifeVars, qryVars, adaptVars, typedVars>>

vars == <<pubVars, subVars, lifeVars, qryVars, adaptVars, writerVars, typedVars>>

\* A writer as the caller passes it: the thread holding the &mut, the
\* implementation behind the trait object and what its get_size() returns.
WriterKinds == {"binary", "generic"}
Writers == [owner : Threads, kind : WriterKinds, size : 0..MaxSize]

\* Option::None of the cell.
NoWriter == [owner |-> 0, kind |-> "none", size |-> 0]

\* thread_local!: every thread has a cell of its own.
SlotOfShared(t) == 1
SlotOf(t) == t

\* cell.borrow_mut().take()
ClearSlotKeep(s, k) == s
ClearSlot(s, k) == [s EXCEPT ![k] = NoWriter]

\* if writer.write_full(buf) { 0 } else { -1 }
CallbackStatusAlwaysZero(ok) == 0
CallbackStatus(ok) == IF ok THEN 0 ELSE -1

\* result == 0
SendResult(result) == result = 0

\* BinaryPayload::write_full / write_modified: false when the buffer is too short.
BinaryWriteOk(size, len) == len >= size

\* BinaryPayload::write_modified, line 58: past the length check, the
\* remainder `% self.size` panics for a writer of size 0.
WriterPanics(w, cb, len) ==
    w.kind = "binary" /\ cb = "write_modified" /\ len >= w.size /\ w.size = 0

\* What a writer implementation may return for a buffer of len bytes: the
\* sample BinaryPayload as coded (nothing when it panics), any other
\* implementation either value.
WriterReturns(w, cb, len) ==
    IF w.kind = "binary"
    THEN IF WriterPanics(w, cb, len) THEN {} ELSE {BinaryWriteOk(w.size, len)}
    ELSE BOOLEAN

\* enum Timestamp { Auto, Custom(i64) }
Auto == [kind |-> "Auto", t |-> 0]
Custom(v) == [kind |-> "Custom", t |-> v]
Timestamps == {Auto, Custom(5), Custom(6)}

\* A *const pointer to a timestamp: null, or the address of a variable that
\* holds t and is or is not in scope any more.
NullTimestampPtr == [null |-> TRUE, t |-> 0, in_scope |-> FALSE]

\* let ts_ptr = match timestamp { Auto => ptr::null(), Custom(t) => &t as .. }:
\* in the Custom arm the pointer is the address of the arm's binding t ...
MatchArm(timestamp) ==
    IF timestamp.kind = "Auto" THEN NullTimestampPtr
    ELSE [null |-> FALSE, t |-> timestamp.t, in_scope |-> TRUE]

\* ... and the binding ends with the arm, before the statement that calls
\* the transport.
AfterMatch(ptr) == [ptr EXCEPT !.in_scope = FALSE]

TimestampPtr(timestamp) == AfterMatch(MatchArm(timestamp))

\* What the stack slot of an ended binding may hold once it has been reused.
StaleStack == -1

\* The transport takes the send timestamp: its own clock for a null
\* pointer, else what it reads through the pointer; reading through the
\* address of a variable that is out of scope gives the old value or
\* whatever has been put there since.
NoRead == [by |-> "none", value |-> 0, dangling |-> FALSE]
TimestampReads(ptr) ==
    IF ptr.null THEN {[by |-> "transport", value |-> 0, dangling |-> FALSE]}
    ELSE IF ptr.in_scope THEN {[by |-> "caller", value |-> ptr.t, dangling |-> FALSE]}
    ELSE {[by |-> "caller", value |-> v, dangling |-> TRUE] : v \in {ptr.t, StaleStack}}

\* One send_payload_writer call: the writer passed, where the call is, the
\* callback the transport made last and the writer it reached, the size
\* reported, the buffer length handed over, what the writer returned, the
\* callback's status, the transport's result, the value returned, and
\* whether the cell held a writer when the call started.
NoFrame == [w |-> NoWriter, pc |-> "none", cb |-> "none", reached |-> NoWriter,
            size |-> 0, len |-> -1, wok |-> "none", status |-> 0, result |-> 0,
            ret |-> "none", occupied |-> FALSE,
            timestamp |-> Auto, ts_ptr |-> NullTimestampPtr, seen |-> NoRead,
            ffi_calls |-> 0]

Top(t) == stack[t][Len(stack[t])]
SetTop(t, f) == [stack EXCEPT ![t] = [@ EXCEPT ![Len(@)] = f]]
InCallback(t) == Len(stack[t]) > 0 /\ Top(t).pc \in {"in_get_size", "in_write"}
Running(t) == ~aborted /\ ~unwinding[t]
At(t, pcs) == Running(t) /\ Len(stack[t]) > 0 /\ Top(t).pc \in pcs

InitPub ==
    /\ CURRENT_WRITER = [k \in Threads |-> NoWriter]
    /\ borrows = [k \in Threads |-> 0]
    /\ stack = [t \in Threads |-> <<>>]
    /\ unwinding = [t \in Threads |-> FALSE]
    /\ aborted = FALSE

\* send_payload_writer, lines 112-128: stash the writer pointer in TLS, then
\* prepare the timestamp pointer.
\* borrow_mut() panics while a callback of this thread holds the cell borrowed.
Stash(t, w, timestamp) ==
    IF borrows[SlotOf(t)] > 0
    THEN /\ unwinding' = [unwinding EXCEPT ![t] = TRUE]
         /\ UNCHANGED <<CURRENT_WRITER, stack>>
    ELSE /\ CURRENT_WRITER' = [CURRENT_WRITER EXCEPT ![SlotOf(t)] = w]
         /\ stack' = [stack EXCEPT ![t] = Append(@,
                [NoFrame EXCEPT !.w = w, !.pc = "ffi",
                                !.occupied = (CURRENT_WRITER[SlotOf(t)] # NoWriter),
                                !.timestamp = timestamp,
                                !.ts_ptr = TimestampPtr(timestamp)])]
         /\ UNCHANGED unwinding

\* A send called by the application, no other send of the thread running.
send_payload_writer(t, w, timestamp) ==
    /\ Running(t) /\ w.owner = t
    /\ Len(stack[t]) = 0
    /\ Stash(t, w, timestamp)
    /\ UNCHANGED <<borrows, aborted>>
    /\ UNCHANGED nonPubVars

\* A send called from inside a writer callback of a running send.
nested_send_payload_writer(t, w, timestamp) ==
    /\ Running(t) /\ w.owner = t
    /\ InCallback(t) /\ Len(stack[t]) < MaxDepth
    /\ Stash(t, w, timestamp)
    /\ UNCHANGED <<borrows, aborted>>
    /\ UNCHANGED nonPubVars

\* The panic of a nested send is caught inside the writer (catch_unwind) ...
PanicCaught(t) ==
    /\ ~aborted /\ unwinding[t]
    /\ unwinding' = [unwinding EXCEPT ![t] = FALSE]
    /\ UNCHANGED <<CURRENT_WRITER, borrows, stack, aborted>>
    /\ UNCHANGED nonPubVars

\* ... or leaves the writer and reaches the extern "C" callback, which
\* aborts the process on a panic that would unwind out of it.
PanicAborts(t) ==
    /\ ~aborted /\ unwinding[t]
    /\ aborted' = TRUE
    /\ UNCHANGED <<CURRENT_WRITER, borrows, stack, unwinding>>
    /\ UNCHANGED nonPubVars

\* What a callback returns when the cell holds no writer: get_size_cb 0
\* (line 73), write_full_cb and write_mod_cb -1 (lines 44 and 61).
EmptySlotResultZero(cb) == 0
EmptySlotResult(cb) == IF cb = "get_size" THEN 0 ELSE -1

\* The transport calls GetSize: get_size_cb reads the cell and, with a writer
\* in it, enters writer.get_size() holding the borrow; with none it returns 0.
get_size_cb(t) ==
    /\ At(t, {"ffi"})
    /\ LET cur == CURRENT_WRITER[SlotOf(t)] IN
       IF cur # NoWriter
       THEN /\ stack' = SetTop(t, [Top(t) EXCEPT !.pc = "in_get_size",
                                   !.cb = "get_size", !.reached = cur])
            /\ borrows' = [borrows EXCEPT ![SlotOf(t)] = @ + 1]
       ELSE /\ stack' = SetTop(t, [Top(t) EXCEPT !.pc = "sized",
                                   !.cb = "get_size", !.reached = NoWriter,
                                   !.size = EmptySlotResult("get_size")])
            /\ UNCHANGED borrows
    /\ UNCHANGED <<CURRENT_WRITER, unwinding, aborted>>
    /\ UNCHANGED nonPubVars

\* writer.get_size() returns.
get_size_cb_ret(t) ==
    /\ At(t, {"in_get_size"})
    /\ stack' = SetTop(t, [Top(t) EXCEPT !.pc = "sized", !.size = Top(t).reached.size])
    /\ borrows' = [borrows EXCEPT ![SlotOf(t)] = @ - 1]
    /\ UNCHANGED <<CURRENT_WRITER, unwinding, aborted>>
    /\ UNCHANGED nonPubVars

\* The transport calls WriteFull (fresh buffer) or WriteModified (reused
\* buffer) with a buffer of len bytes: write_full_cb / write_mod_cb read the
\* cell and enter the writer, or return -1 with no writer in it.
write_cb(t, cb, len) ==
    /\ At(t, {"sized"})
    /\ LET cur == CURRENT_WRITER[SlotOf(t)] IN
       IF cur # NoWriter
       THEN /\ stack' = SetTop(t, [Top(t) EXCEPT !.pc = "in_write", !.cb = cb,
                                   !.reached = cur, !.len = len])
            /\ borrows' = [borrows EXCEPT ![SlotOf(t)] = @ + 1]
       ELSE /\ stack' = SetTop(t, [Top(t) EXCEPT !.pc = "written", !.cb = cb,
                                   !.reached = NoWriter, !.len = len,
                                   !.status = EmptySlotResult(cb)])
            /\ UNCHANGED borrows
    /\ UNCHANGED <<CURRENT_WRITER, unwinding, aborted>>
    /\ UNCHANGED nonPubVars

\* writer.write_full / write_modified returns ok; the callback turns it into
\* the C status. A panic of the writer cannot unwind out of the extern "C"
\* callback: the process aborts inside it.
write_cb_ret(t, ok) ==
    /\ At(t, {"in_write"})
    /\ IF WriterPanics(Top(t).reached, Top(t).cb, Top(t).len)
       THEN /\ aborted' = TRUE
            /\ UNCHANGED <<stack, borrows>>
       ELSE /\ ok \in WriterReturns(Top(t).reached, Top(t).cb, Top(t).len)
            /\ stack' = SetTop(t, [Top(t) EXCEPT !.pc = "written",
                                   !.wok = IF ok THEN "true" ELSE "false",
                                   !.status = CallbackStatus(ok)])
            /\ borrows' = [borrows EXCEPT ![SlotOf(t)] = @ - 1]
            /\ UNCHANGED aborted
    /\ UNCHANGED <<CURRENT_WRITER, unwinding>>
    /\ UNCHANGED nonPubVars

\* What eCAL_Publisher_SendPayloadWriter may return: non-zero after a failed
\* write callback, otherwise 0 or a failure of its own. It may return
\* before it has called back.
TransportResults(f) == IF f.status # 0 THEN {1} ELSE {0, 1}

\* eCAL_Publisher_SendPayloadWriter returns (lines 131-132), having taken
\* the timestamp.
eCAL_Publisher_SendPayloadWriter_ret(t, r) ==
    /\ At(t, {"ffi", "sized", "written"})
    /\ r \in TransportResults(Top(t))
    /\ \E read \in TimestampReads(Top(t).ts_ptr) :
          stack' = SetTop(t, [Top(t) EXCEPT !.pc = "returned", !.result = r,
                                 !.seen = read, !.ffi_calls = @ + 1])
    /\ UNCHANGED <<CURRENT_WRITER, borrows, unwinding, aborted>>
    /\ UNCHANGED nonPubVars

\* send_payload_writer, lines 134-140: clear the slot, compute result == 0.
send_payload_writer_clear(t) ==
    /\ At(t, {"returned"})
    /\ CURRENT_WRITER' = ClearSlot(CURRENT_WRITER, SlotOf(t))
    /\ stack' = SetTop(t, [Top(t) EXCEPT !.pc = "done", !.ret =
                   IF SendResult(Top(t).result) THEN "true" ELSE "false"])
    /\ UNCHANGED <<borrows, unwinding, aborted>>
    /\ UNCHANGED nonPubVars

\* The caller has the returned value; the call is over.
send_payload_writer_ret(t) ==
    /\ At(t, {"done"})
    /\ stack' = [stack EXCEPT ![t] = SubSeq(@, 1, Len(@) - 1)]
    /\ UNCHANGED <<CURRENT_WRITER, borrows, unwinding, aborted>>
    /\ UNCHANGED nonPubVars

\* The steps of a send that is under way on thread t.
SendSteps(t, lens) ==
    \/ get_size_cb(t)
    \/ get_size_cb_ret(t)
    \/ \E cb \in {"write_full", "write_modified"}, len \in lens : write_cb(t, cb, len)
    \/ \E ok \in BOOLEAN : write_cb_ret(t, ok)
    \/ \E r \in {0, 1} : eCAL_Publisher_SendPayloadWriter_ret(t, r)
    \/ send_payload_writer_clear(t)
    \/ send_payload_writer_ret(t)

\* The callback entry points are called on thread t while no
\* send_payload_writer of the thread is running: the frame stands for the
\* caller of the entry points and has no writer.
callbacks_outside_send(t) ==
    /\ Running(t) /\ Len(stack[t]) = 0
    /\ stack' = [stack EXCEPT ![t] = <<[NoFrame EXCEPT !.pc = "ffi"]>>]
    /\ UNCHANGED <<CURRENT_WRITER, borrows, unwinding, aborted>>
    /\ UNCHANGED nonPubVars

\* That caller is done with the entry points.
callbacks_outside_send_ret(t) ==
    /\ At(t, {"ffi", "sized", "written"}) /\ Top(t).w = NoWriter
    /\ stack' = [stack EXCEPT ![t] = <<>>]
    /\ UNCHANGED <<CURRENT_WRITER, borrows, unwinding, aborted>>
    /\ UNCHANGED nonPubVars

InSend(t) == Len(stack[t]) > 0 /\ Top(t).w # NoWriter

\* One thread sending again and again, its writers free to send from inside
\* their callbacks, the transport free in the buffer length it hands over.
SeqThreads == {1}

NextPub ==
    \E t \in SeqThreads :
        \/ \E w \in Writers : send_payload_writer(t, w, Auto)
        \/ \E w \in Writers : nested_send_payload_writer(t, w, Auto)
        \/ PanicCaught(t)
        \/ PanicAborts(t)
        \/ SendSteps(t, 0..MaxLen)

\* All threads sending concurrently, each through a publisher of its own,
\* with writers that report MaxSize bytes and get a buffer of that length.
ParWriters == {w \in Writers : w.size = MaxSize}

NextPar ==
    \E t \in Threads :
        \/ \E w \in ParWriters : send_payload_writer(t, w, Auto)
        \/ SendSteps(t, {MaxSize})

\* Threads that send and, between their sends, have the callback entry
\* points called on them.
NextStray ==
    \E t \in Threads :
        \/ \E w \in ParWriters : send_payload_writer(t, w, Auto)
        \/ callbacks_outside_send(t)
        \/ get_size_cb(t)
        \/ get_size_cb_ret(t)
        \/ \E cb \in {"write_full", "write_modified"} : write_cb(t, cb, MaxSize)
        \/ \E ok \in BOOLEAN : write_cb_ret(t, ok)
        \/ InSend(t) /\ \E r \in {0, 1} : eCAL_Publisher_SendPayloadWriter_ret(t, r)
        \/ send_payload_writer_clear(t)
        \/ send_payload_writer_ret(t)
        \/ callbacks_outside_send_ret(t)

\* ======================================================= publisher lifecycle

\* Rust strings and descriptors as Publisher::new gets them: empty, plain,
\* a NUL alone and a NUL between letters; no descriptor, one and two bytes.
NUL == 0
RustStrings == {<<>>, <<97>>, <<NUL>>, <<97, NUL, 98>>}
Descriptors == {<<>>, <<9>>, <<9, 8>>}

\* CString::new(s): Err when s has an interior NUL, else the bytes of s
\* followed by the terminating NUL.
HasNul(str) == \E i \in 1..Len(str) : str[i] = NUL
CStringNewUnchecked(str) == [ok |-> TRUE, bytes |-> Append(str, NUL)]
CStringNew(str) ==
    IF HasNul(str) THEN [ok |-> FALSE, bytes |-> <<>>]
    ELSE [ok |-> TRUE, bytes |-> Append(str, NUL)]

\* Pointers: a buffer of the publisher created as number gen, or null.
HandleIds == 1..MaxPublishers
BufNames == {"encoding", "type_name", "descriptor"}
NullPtr == [gen |-> 0, buf |-> "null"]
PtrTo(g, b) == [gen |-> g, buf |-> b]
NoBuffer == [state |-> "unalloc", bytes |-> <<>>]

\* Lines 46-50: the descriptor pointer is null for an empty descriptor.
DescriptorPtr(g, descriptor) ==
    IF descriptor = <<>> THEN NullPtr ELSE PtrTo(g, "descriptor")

NoPublisher == [state |-> "none", handle |-> 0, _encoding |-> NullPtr,
                _type_name |-> NullPtr, _descriptor |-> NullPtr]
NoHandle == [state |-> "unused", deletes |-> 0, encoding |-> NullPtr,
             name |-> NullPtr, descriptor |-> NullPtr, descriptor_length |-> 0,
             encoding_bytes |-> <<>>, name_bytes |-> <<>>, descriptor_bytes |-> <<>>,
             topic_bytes |-> <<>>]
NoNew == [topic_name |-> <<>>, encoding |-> <<>>, type_name |-> <<>>,
          descriptor |-> <<>>, create_calls |-> 0, handle |-> 0, result |-> "none"]
NoSend == [pc |-> "idle", data |-> <<>>, timestamp |-> Auto,
           ts_ptr |-> NullTimestampPtr, handle |-> 0, handle_state |-> "unused",
           ffi_calls |-> 0, sent |-> <<>>, seen |-> NoRead, ret |-> 0,
           result |-> "none"]

InitLife ==
    /\ pub = NoPublisher
    /\ lastNew = NoNew
    /\ eCAL = [h \in HandleIds |-> NoHandle]
    /\ mem = [g \in HandleIds |-> [b \in BufNames |-> NoBuffer]]
    /\ deleteCalls = 0
    /\ snd = NoSend

\* The handle eCAL_Publisher_New returns when it succeeds.
NextHandle == 1 + Cardinality({h \in HandleIds : eCAL[h].state # "unused"})

\* Lines 64-71: the buffers moved into the Publisher; the others are dropped
\* when new returns.
OwnedWithoutDescriptor == {"encoding", "type_name"}
OwnedByPublisher == {"encoding", "type_name", "descriptor"}

\* Publisher::new, lines 41-72. created is what eCAL_Publisher_New returns
\* if it is called: 0 (null) or the next handle.
Publisher_new(topic_name, encoding, type_name, descriptor, created) ==
    /\ pub.state \in {"none", "dropped"}
    /\ snd.pc = "idle"
    /\ NextHandle \in HandleIds
    /\ created \in {0, NextHandle}
    /\ LET c_topic == CStringNew(topic_name)
           c_encoding == CStringNew(encoding)
           c_type_name == CStringNew(type_name)
           g == NextHandle
           args == [NoNew EXCEPT !.topic_name = topic_name, !.encoding = encoding,
                                 !.type_name = type_name, !.descriptor = descriptor]
           Fail(msg, n) ==
               /\ lastNew' = [args EXCEPT !.result = msg, !.create_calls = n]
               /\ pub' = NoPublisher
               /\ UNCHANGED <<eCAL, mem>>
       IN  IF ~c_topic.ok THEN Fail("Invalid topic name", 0)
           ELSE IF ~c_encoding.ok THEN Fail("Invalid encoding string", 0)
           ELSE IF ~c_type_name.ok THEN Fail("Invalid type name", 0)
           ELSE IF created = 0 THEN Fail("Failed to create eCAL_Publisher", 1)
           ELSE /\ lastNew' = [args EXCEPT !.result = "Ok", !.create_calls = 1,
                                           !.handle = created]
                /\ eCAL' = [eCAL EXCEPT ![created] =
                       [state |-> "live", deletes |-> 0,
                        encoding |-> PtrTo(g, "encoding"),
                        name |-> PtrTo(g, "type_name"),
                        descriptor |-> DescriptorPtr(g, descriptor),
                        descriptor_length |-> Len(descriptor),
                        encoding_bytes |-> c_encoding.bytes,
                        name_bytes |-> c_type_name.bytes,
                        descriptor_bytes |-> descriptor,
                        topic_bytes |-> c_topic.bytes]]
                /\ mem' = [mem EXCEPT ![g] =
                       [b \in BufNames |->
                          LET bytes == CASE b = "encoding" -> c_encoding.bytes
                                         [] b = "type_name" -> c_type_name.bytes
                                         [] b = "descriptor" -> descriptor
                          IN  IF b = "descriptor" /\ descriptor = <<>> THEN NoBuffer
                              ELSE IF b \in OwnedByPublisher
                              THEN [state |-> "live", bytes |-> bytes]
                              ELSE [state |-> "freed", bytes |-> <<>>]]]
                /\ pub' = [state |-> "alive", handle |-> created,
                           _encoding |-> PtrTo(g, "encoding"),
                           _type_name |-> PtrTo(g, "type_name"),
                           _descriptor |-> DescriptorPtr(g, descriptor)]
    /\ UNCHANGED <<deleteCalls, snd>>
    /\ UNCHANGED nonLifeVars

\* eCAL_Publisher_Delete(h): the transport releases the handle and what it
\* kept of its type information.
HandleKept(e, h) == e
HandleDeleted(e, h) ==
    [e EXCEPT ![h] = [NoHandle EXCEPT !.state = "deleted", !.deletes = e[h].deletes + 1]]

\* Drop for Publisher, lines 223-230: eCAL_Publisher_Delete(self.handle). A
\* value can be dropped only while no call on it is running.
drop_delete ==
    /\ pub.state = "alive"
    /\ snd.pc = "idle" /\ \A t \in Threads : stack[t] = <<>>
    /\ eCAL' = HandleDeleted(eCAL, pub.handle)
    /\ deleteCalls' = deleteCalls + 1
    /\ pub' = [pub EXCEPT !.state = "deleted"]
    /\ UNCHANGED <<lastNew, mem, snd>>
    /\ UNCHANGED nonLifeVars

\* After the body of drop the fields are dropped: the two CStrings and the
\* Vec free their buffers.
drop_fields ==
    /\ pub.state = "deleted"
    /\ mem' = [mem EXCEPT ![pub.handle] =
                  [b \in BufNames |-> IF @[b].state = "live"
                                      THEN [state |-> "freed", bytes |-> <<>>]
                                      ELSE @[b]]]
    /\ pub' = [pub EXCEPT !.state = "dropped"]
    /\ UNCHANGED <<lastNew, eCAL, deleteCalls, snd>>
    /\ UNCHANGED nonLifeVars

\* ret == 0
SendRetNonNegative(ret) == ret >= 0
SendRet(ret) == ret = 0

\* Publisher::send, lines 84-92: prepare the timestamp pointer and call
\* eCAL_Publisher_Send, which takes the bytes and the timestamp and returns
\* ret.
send(data, timestamp, ret) ==
    /\ pub.state = "alive"
    /\ snd.pc = "idle" /\ \A t \in Threads : stack[t] = <<>>
    /\ LET ts_ptr == TimestampPtr(timestamp) IN
       \E read \in TimestampReads(ts_ptr) :
          snd' = [pc |-> "called", data |-> data, timestamp |-> timestamp,
                  ts_ptr |-> ts_ptr, handle |-> pub.handle,
                  handle_state |-> eCAL[pub.handle].state,
                  ffi_calls |-> 1, sent |-> data, seen |-> read, ret |-> ret,
                  result |-> "none"]
    /\ UNCHANGED <<pub, lastNew, eCAL, mem, deleteCalls>>
    /\ UNCHANGED nonLifeVars

\* Line 93: send evaluates ret == 0 and has its value.
send_result ==
    /\ snd.pc = "called"
    /\ snd' = [snd EXCEPT !.pc = "returned",
                          !.result = IF SendRet(snd.ret) THEN "true" ELSE "false"]
    /\ UNCHANGED <<pub, lastNew, eCAL, mem, deleteCalls>>
    /\ UNCHANGED nonLifeVars

\* The caller has the returned value; the call is over.
send_ret ==
    /\ snd.pc = "returned"
    /\ snd' = NoSend
    /\ UNCHANGED <<pub, lastNew, eCAL, mem, deleteCalls>>
    /\ UNCHANGED nonLifeVars

\* One publisher at a time, created, used for copying and zero-copy sends
\* on its thread, and dropped; then the next.
SendData == {<<>>, <<1>>}
LifeWriters == {w \in ParWriters : w.owner = 1}

\* The application creates a publisher from any strings and descriptor, the
\* transport free to fail.
CreatePublisher ==
    /\ pub.state \in {"none", "dropped"}
    /\ \E topic_name \in RustStrings, encoding \in RustStrings,
          type_name \in RustStrings, descriptor \in Descriptors,
          created \in {0, NextHandle} :
          Publisher_new(topic_name, encoding, type_name, descriptor, created)

\* The application sends a copy of some bytes, the transport free to fail.
CopyingSend ==
    /\ pub.state = "alive" /\ snd.pc = "idle"
    /\ \E data \in SendData, timestamp \in Timestamps, ret \in {0, 1} :
          send(data, timestamp, ret)

NextLife ==
    \/ CreatePublisher
    \/ CopyingSend
    \/ send_result
    \/ send_ret
    \/ \E w \in LifeWriters, timestamp \in Timestamps :
          pub.state = "alive" /\ snd.pc = "idle"
          /\ send_payload_writer(1, w, timestamp)
    \/ SendSteps(1, {MaxSize})
    \/ drop_delete
    \/ drop_fields

\* =============================================================== subscriber

\* A null context pointer; the boxes are 1 (the placeholder of new) and
\* 2.. (one per set_callback).
Null == 0
Placeholder == 1
Boxes == 1..(MaxCallbacks + 1)

\* The transport runs one delivery of a subscriber at a time and replaces or
\* removes the callback only between deliveries.
CallbackMutexFree == dPc = "idle"

\* Subscriber::new(topic_name, datatype, trampoline::<T>), line 104, registers
\* the entry point. The placeholder box of lines 101-102 is not among its
\* arguments, so whatever context that first registration carries, it is not
\* the box. The context itself is set in subscriber.rs: it is taken to be
\* the null pointer, the one context that set_callback (a pointer fresh from
\* Box::into_raw) never registers and that the trampoline tests for at line
\* 187.
NewRegisteredContext == Null

\* CStr::from_ptr(p).to_string_lossy().into_owned(): the bytes of the C
\* string as a String. A well-formed UTF-8 sequence is kept as it is; every
\* maximal ill-formed run (a byte that starts no sequence, or a lead byte
\* with the continuation bytes that do follow it) becomes one U+FFFD.
ReplacementChar == 65533
Continuation(b) == b >= 128 /\ b <= 191
Utf8Width(lead) ==
    IF lead < 128 THEN 1
    ELSE IF lead >= 194 /\ lead <= 223 THEN 2
    ELSE IF lead >= 224 /\ lead <= 239 THEN 3
    ELSE IF lead >= 240 /\ lead <= 244 THEN 4
    ELSE 0
SecondByte(lead, b) ==
    CASE lead = 224 -> b >= 160 /\ b <= 191
      [] lead = 237 -> b >= 128 /\ b <= 159
      [] lead = 240 -> b >= 144 /\ b <= 191
      [] lead = 244 -> b >= 128 /\ b <= 143
      [] OTHER -> Continuation(b)
\* How many bytes at the head of cstr form the start of one sequence.
Utf8Matched(cstr) ==
    LET w == Utf8Width(cstr[1])
        m2 == IF w >= 2 /\ Len(cstr) >= 2 /\ SecondByte(cstr[1], cstr[2]) THEN 2 ELSE 1
        m3 == IF m2 = 2 /\ w >= 3 /\ Len(cstr) >= 3 /\ Continuation(cstr[3]) THEN 3 ELSE m2
    IN  IF m3 = 3 /\ w >= 4 /\ Len(cstr) >= 4 /\ Continuation(cstr[4]) THEN 4 ELSE m3
RECURSIVE ToStringLossy(_)
ToStringLossy(cstr) ==
    IF cstr = <<>> THEN <<>>
    ELSE LET m == Utf8Matched(cstr)
             rest == SubSeq(cstr, m + 1, Len(cstr))
         IN  IF m = Utf8Width(cstr[1])
             THEN SubSeq(cstr, 1, m) \o ToStringLossy(rest)
             ELSE <<ReplacementChar>> \o ToStringLossy(rest)

\* The arguments the transport passes to the trampoline besides user_data:
\* whether data, data_type_info and topic_id are null and, behind them, the
\* payload buffer, the C strings of topic id and type information, the send
\* timestamp and clock; and what T::from_bytes makes of the payload.
NoDelivery == [dataNull |-> TRUE, infoNull |-> TRUE, topicNull |-> TRUE,
               buffer |-> <<>>, decodes |-> FALSE, topic_name |-> <<>>,
               encoding |-> <<>>, name |-> <<>>, send_timestamp |-> 0,
               send_clock |-> 0]

\* Received<T>, with the payload standing for the T decoded from bytes.
Decoded(bytes) == <<"T", bytes>>
NoReceived == [payload |-> <<>>, topic_name |-> <<>>, encoding |-> <<>>,
               type_name |-> <<>>, timestamp |-> 0, clock |-> 0]

\* Lines 206-213: the envelope built from the decoded copy of the buffer and
\* the arguments of this call.
ReceivedSwapped(d, msg_arc) ==
    [payload |-> Decoded(msg_arc),
     topic_name |-> ToStringLossy(d.topic_name),
     encoding |-> ToStringLossy(d.encoding),
     type_name |-> ToStringLossy(d.name),
     timestamp |-> d.send_clock,
     clock |-> d.send_timestamp]
Received(d, msg_arc) ==
    [payload |-> Decoded(msg_arc),
     topic_name |-> ToStringLossy(d.topic_name),
     encoding |-> ToStringLossy(d.encoding),
     type_name |-> ToStringLossy(d.name),
     timestamp |-> d.send_timestamp,
     clock |-> d.send_clock]

\* What one trampoline call has done: whether it read the payload buffer and
\* the copy it took, whether from_bytes was called and what it gave, how
\* often a closure was invoked, which one, with what envelope, and whether
\* the call has returned to the transport.
NoOutcome == [read |-> FALSE, msg_arc |-> <<>>, decode |-> "none", invoked |-> 0,
              closure |-> Null, received |-> NoReceived, returned |-> FALSE]

\* TypedSubscriber::new returned Ok: the placeholder is boxed and owned, the
\* entry point registered.
InitSub ==
    /\ heap = [b \in Boxes |-> IF b = Placeholder THEN "live" ELSE "unalloc"]
    /\ user_data = Placeholder
    /\ registered = TRUE
    /\ regCtx = NewRegisteredContext
    /\ appPc = "idle"
    /\ dPc = "idle"
    /\ dCtx = Null
    /\ dArgs = NoDelivery
    /\ dOut = NoOutcome
    /\ deliveries = 0
    /\ calls = [b \in Boxes |-> 0]
    /\ uaf = FALSE
    /\ crashed = FALSE

\* set_callback, lines 122-125: let _ = Box::from_raw(self.user_data).
set_callback_free_old ==
    /\ ~crashed /\ appPc = "idle"
    /\ user_data < MaxCallbacks + 1
    /\ heap' = [heap EXCEPT ![user_data] = "freed"]
    /\ appPc' = "sc_freed"
    /\ UNCHANGED <<user_data, registered, regCtx, dPc, dCtx, dArgs, dOut, deliveries, calls, uaf, crashed>>
    /\ UNCHANGED nonSubVars

\* set_callback, lines 127-128: box the new closure, keep its raw pointer.
set_callback_box ==
    /\ ~crashed /\ appPc = "sc_freed"
    /\ heap' = [heap EXCEPT ![user_data + 1] = "live"]
    /\ user_data' = user_data + 1
    /\ appPc' = "sc_boxed"
    /\ UNCHANGED <<registered, regCtx, dPc, dCtx, dArgs, dOut, deliveries, calls, uaf, crashed>>
    /\ UNCHANGED nonSubVars

\* The context handed to eCAL_Subscriber_SetReceiveCallback (line 134).
InstallContextStale == regCtx
InstallContext == user_data

\* set_callback, lines 130-136: eCAL_Subscriber_SetReceiveCallback.
set_callback_install ==
    /\ ~crashed /\ appPc = "sc_boxed"
    /\ CallbackMutexFree
    /\ registered' = TRUE
    /\ regCtx' = InstallContext
    /\ appPc' = "idle"
    /\ UNCHANGED <<heap, user_data, dPc, dCtx, dArgs, dOut, deliveries, calls, uaf, crashed>>
    /\ UNCHANGED nonSubVars

\* The two statements of drop, in order: remove the registration (line 171),
\* free the box (line 172).
RemoveRegistration ==
    /\ CallbackMutexFree
    /\ registered' = FALSE
    /\ UNCHANGED <<heap, regCtx>>

FreeOwnedBox ==
    /\ heap' = [heap EXCEPT ![user_data] = "freed"]
    /\ UNCHANGED <<registered, regCtx>>

DropFirstFrees == FreeOwnedBox
DropFirstSkipped == UNCHANGED <<heap, registered, regCtx>>
DropFirst == RemoveRegistration
DropSecond == FreeOwnedBox

drop_remove ==
    /\ ~crashed /\ appPc = "idle"
    /\ DropFirst
    /\ appPc' = "drop_removed"
    /\ UNCHANGED <<user_data, dPc, dCtx, dArgs, dOut, deliveries, calls, uaf, crashed>>
    /\ UNCHANGED nonSubVars

drop_free ==
    /\ ~crashed /\ appPc = "drop_removed"
    /\ DropSecond
    /\ appPc' = "dropped"
    /\ UNCHANGED <<user_data, dPc, dCtx, dArgs, dOut, deliveries, calls, uaf, crashed>>
    /\ UNCHANGED nonSubVars

\* Line 187: if data.is_null() || user_data.is_null() { return; }
NullCheckContextOnly(d, ctx) == ctx = Null
NullCheck(d, ctx) == d.dataNull \/ ctx = Null

\* Line 203: if let Some(decoded) = T::from_bytes(..) { .. }: the call of the
\* closure follows only a successful decode.
DecodeBranchAlways(decodes) == "call"
DecodeBranch(decodes) == IF decodes THEN "call" ELSE "idle"

\* The transport starts a delivery: it calls the trampoline with the
\* registered context. Lines 186-203: a null payload or context returns at
\* once; otherwise the buffer is copied, the type information read through
\* its pointer, and from_bytes called; a payload that does not decode
\* returns after from_bytes.
trampoline_enter(d) ==
    /\ ~crashed /\ registered /\ dPc = "idle"
    /\ deliveries < MaxDeliveries
    /\ deliveries' = deliveries + 1
    /\ dArgs' = d
    /\ dCtx' = regCtx
    /\ IF NullCheck(d, regCtx)
       THEN /\ dOut' = [NoOutcome EXCEPT !.returned = TRUE]
            /\ UNCHANGED <<dPc, crashed>>
       ELSE IF d.infoNull
       THEN /\ dOut' = [NoOutcome EXCEPT !.read = TRUE, !.msg_arc = d.buffer]
            /\ crashed' = TRUE
            /\ UNCHANGED dPc
       ELSE /\ dOut' = [NoOutcome EXCEPT !.read = TRUE, !.msg_arc = d.buffer,
                           !.decode = IF d.decodes THEN "some" ELSE "none_returned",
                           !.returned = (DecodeBranch(d.decodes) = "idle")]
            /\ dPc' = DecodeBranch(d.decodes)
            /\ UNCHANGED crashed
    /\ UNCHANGED <<heap, user_data, registered, regCtx, appPc, calls, uaf>>
    /\ UNCHANGED nonSubVars

\* What dereferencing a freed box can do: run the closure still lying there,
\* run the closure boxed since at the same address, or fault.
StaleOutcomes(b) ==
    {b} \cup (IF user_data # b /\ heap[user_data] = "live" THEN {user_data} ELSE {})
        \cup {Null}

\* Lines 192 and 203: the bytes T::from_bytes is given, and the decoded
\* value refers to, are those of msg_arc, the copy, not the transport's
\* buffer.
PayloadBytesInPlace(msg_arc, buffer) == buffer
PayloadBytes(msg_arc, buffer) == msg_arc

\* The closure behind box o is called with the envelope of this delivery and
\* returns, and the trampoline with it.
Invoke(o) ==
    /\ calls' = [calls EXCEPT ![o] = @ + 1]
    /\ dOut' = [dOut EXCEPT !.invoked = @ + 1, !.closure = o,
                            !.received =
                                Received(dArgs, PayloadBytes(dOut.msg_arc, dArgs.buffer)),
                            !.returned = TRUE]

\* Lines 204-214: &*(user_data as *const CallbackWrapper<T>), the topic name
\* read through topic_id, cb_wrapper.call(metadata).
trampoline_call ==
    /\ ~crashed /\ dPc = "call"
    /\ dPc' = "idle"
    /\ IF dCtx = Null \/ dArgs.topicNull
       THEN /\ crashed' = TRUE
            /\ UNCHANGED <<calls, dOut, uaf>>
       ELSE IF heap[dCtx] = "live"
       THEN /\ Invoke(dCtx)
            /\ UNCHANGED <<uaf, crashed>>
       ELSE /\ uaf' = TRUE
            /\ \E o \in StaleOutcomes(dCtx) :
                  IF o = Null
                  THEN crashed' = TRUE /\ UNCHANGED <<calls, dOut>>
                  ELSE Invoke(o) /\ UNCHANGED crashed
    /\ UNCHANGED <<heap, user_data, registered, regCtx, appPc, dCtx, dArgs, deliveries>>
    /\ UNCHANGED nonSubVars

\* Deliveries as the transport makes them, with topic id and type
\* information behind non-null pointers: C strings over ASCII letters and
\* a byte that is not UTF-8, two payloads, two type informations, two
\* timestamps, two clocks.
Payloads == {<<1>>, <<2, 3>>}
TopicNames == {<<65>>, <<255, 65>>}
SendTimestamps == {10, 20}
SendClocks == {1, 2}

TypeInformations == {[encoding |-> <<66>>, name |-> <<67>>],
                     [encoding |-> <<66, 255>>, name |-> <<255>>]}

WireDeliveries ==
    {[dataNull |-> FALSE, infoNull |-> FALSE, topicNull |-> FALSE,
      buffer |-> buffer, decodes |-> decodes, topic_name |-> topic_name,
      encoding |-> info.encoding, name |-> info.name,
      send_timestamp |-> send_timestamp, send_clock |-> send_clock] :
        buffer \in Payloads, decodes \in BOOLEAN, topic_name \in TopicNames,
        info \in TypeInformations, send_timestamp \in SendTimestamps,
        send_clock \in SendClocks}
    \cup
    {[dataNull |-> TRUE, infoNull |-> FALSE, topicNull |-> FALSE,
      buffer |-> <<>>, decodes |-> FALSE, topic_name |-> <<65>>,
      encoding |-> <<66>>, name |-> <<67>>,
      send_timestamp |-> 0, send_clock |-> 0]}

\* The same with everything but the payload pointer and the decoding fixed.
PlainDeliveries ==
    {d \in WireDeliveries :
        /\ d.topic_name = <<65>> /\ d.encoding = <<66>> /\ d.name = <<67>>
        /\ d.dataNull \/ (d.buffer = <<1>> /\ d.send_timestamp = 10 /\ d.send_clock = 1)}

\* The transport makes one of the deliveries D while none is running.
Deliver(D) ==
    /\ dPc = "idle" /\ registered /\ deliveries < MaxDeliveries
    /\ \E d \in D : trampoline_enter(d)

NextSub ==
    \/ set_callback_free_old
    \/ set_callback_box
    \/ set_callback_install
    \/ drop_remove
    \/ drop_free
    \/ Deliver(PlainDeliveries)
    \/ trampoline_call

\* The transport reuses or releases the payload buffer of the delivery once
\* the trampoline has read it: its bytes become other bytes, or none.
OverwriteBytes == Payloads \cup {<<>>, <<9, 9>>}
transport_overwrite(bytes) ==
    /\ ~crashed /\ deliveries > 0 /\ dOut.read
    /\ dArgs.buffer # bytes
    /\ dArgs' = [dArgs EXCEPT !.buffer = bytes]
    /\ UNCHANGED <<heap, user_data, registered, regCtx, appPc, dPc, dCtx, dOut,
                   deliveries, calls, uaf, crashed>>
    /\ UNCHANGED nonSubVars

\* A subscriber with a callback whose deliveries' buffers are overwritten
\* under it.
NextCopy ==
    \/ set_callback_free_old
    \/ set_callback_box
    \/ set_callback_install
    \/ Deliver(PlainDeliveries)
    \/ trampoline_call
    \/ \E bytes \in OverwriteBytes : transport_overwrite(bytes)

\* One delivery for every combination of null and non-null payload, type
\* information and topic id pointers; the context is null before the first
\* set_callback and a box after it.
NullDeliveries ==
    {[dataNull |-> dataNull, infoNull |-> infoNull, topicNull |-> topicNull,
      buffer |-> IF dataNull THEN <<>> ELSE <<1>>, decodes |-> ~dataNull,
      topic_name |-> <<65>>, encoding |-> <<66>>, name |-> <<67>>,
      send_timestamp |-> 10, send_clock |-> 1] :
        dataNull \in BOOLEAN, infoNull \in BOOLEAN, topicNull \in BOOLEAN}

\* A subscriber that is given callbacks while deliveries with null pointers
\* arrive.
NextNull ==
    \/ set_callback_free_old
    \/ set_callback_box
    \/ set_callback_install
    \/ Deliver(NullDeliveries)
    \/ trampoline_call

\* The state before TypedSubscriber::new: no box, no subscriber.
InitBoxes ==
    /\ heap = [b \in Boxes |-> "unalloc"]
    /\ user_data = Null
    /\ registered = FALSE
    /\ regCtx = Null
    /\ appPc = "new"
    /\ dPc = "idle"
    /\ dCtx = Null
    /\ dArgs = NoDelivery
    /\ dOut = NoOutcome
    /\ deliveries = 0
    /\ calls = [b \in Boxes |-> 0]
    /\ uaf = FALSE
    /\ crashed = FALSE

\* new, lines 101-102: box the no-op closure, keep its raw pointer in the
\* local user_data.
TypedSubscriber_new_box ==
    /\ appPc = "new"
    /\ heap' = [heap EXCEPT ![Placeholder] = "live"]
    /\ user_data' = Placeholder
    /\ appPc' = "new_boxed"
    /\ UNCHANGED <<registered, regCtx, dPc, dCtx, dArgs, dOut, deliveries, calls, uaf, crashed>>
    /\ UNCHANGED nonSubVars

\* new, lines 104-110: Subscriber::new(..)? returns its error at once, the
\* local raw pointer going out of scope; on Ok the subscriber and the
\* pointer become the TypedSubscriber.
TypedSubscriber_new_ret(result) ==
    /\ appPc = "new_boxed"
    /\ IF result = "Ok"
       THEN /\ registered' = TRUE
            /\ regCtx' = NewRegisteredContext
            /\ appPc' = "idle"
            /\ UNCHANGED user_data
       ELSE /\ appPc' = "new_failed"
            /\ user_data' = Null
            /\ UNCHANGED <<registered, regCtx>>
    /\ UNCHANGED <<heap, dPc, dCtx, dArgs, dOut, deliveries, calls, uaf, crashed>>
    /\ UNCHANGED nonSubVars

\* A typed subscriber from its construction, failed or not, to its drop.
NextBox ==
    \/ TypedSubscriber_new_box
    \/ \E result \in {"Ok", "Err"} : TypedSubscriber_new_ret(result)
    \/ set_callback_free_old
    \/ set_callback_box
    \/ set_callback_install
    \/ drop_remove
    \/ drop_free
    \/ Deliver(PlainDeliveries)
    \/ trampoline_call

\* A subscriber whose callback is replaced while deliveries of every content
\* arrive.
NextWire ==
    \/ set_callback_free_old
    \/ set_callback_box
    \/ set_callback_install
    \/ Deliver(WireDeliveries)
    \/ trampoline_call

\* ========================================================= publisher queries

\* Option<T>.
None == [some |-> FALSE]
Some(v) == [some |-> TRUE, value |-> v]

NoQuery == [op |-> "none", handle |-> 0, during_send |-> FALSE,
            supplied |-> FALSE, raw |-> "none", result |-> None]

InitQuery == qry = NoQuery

\* CStr::from_ptr(p): the bytes at p up to the first NUL.
RECURSIVE CStrFromPtr(_)
CStrFromPtr(bytes) ==
    IF bytes = <<>> \/ Head(bytes) = NUL THEN <<>>
    ELSE <<Head(bytes)>> \o CStrFromPtr(Tail(bytes))

\* A pointer to C data as the transport returns it: null, or the bytes it
\* points to.
CNull == [null |-> TRUE, bytes |-> <<>>]
CPtr(bytes) == [null |-> FALSE, bytes |-> bytes]

\* The queries take &self and only call a getter of the transport: the
\* publisher, the Active Writer Slot and the transport are as before.
QueryRetypes ==
    /\ eCAL' = [eCAL EXCEPT ![pub.handle].name_bytes = <<NUL>>]
    /\ UNCHANGED <<pub, lastNew, mem, deleteCalls, snd, pubVars, subVars, adaptVars,
                   writerVars, typedVars>>
QueryDeletesHandle ==
    /\ eCAL' = HandleDeleted(eCAL, pub.handle)
    /\ UNCHANGED <<pub, lastNew, mem, deleteCalls, snd, pubVars, subVars, adaptVars,
                   writerVars, typedVars>>
QueryFrame == UNCHANGED <<pubVars, subVars, lifeVars, adaptVars, writerVars, typedVars>>

\* A query is a call on a live publisher by the thread that owns it: between
\* its sends or from inside a writer callback of its zero-copy send.
CanQuery ==
    /\ pub.state = "alive" /\ snd.pc = "idle"
    /\ ~aborted /\ ~unwinding[1]
    /\ stack[1] = <<>> \/ InCallback(1)

\* get_subscriber_count, lines 144-146: the usize that
\* eCAL_Publisher_GetSubscriberCount returns, as it is. The getter returns a
\* number on every call and no pointer, so it has no null answer.
SubscriberCounts == {0, 1, 2}
get_subscriber_count(count) ==
    /\ CanQuery
    /\ count \in SubscriberCounts
    /\ qry' = [op |-> "get_subscriber_count", handle |-> pub.handle, during_send |-> stack[1] # <<>>,
               supplied |-> TRUE, raw |-> count, result |-> [count |-> count]]
    /\ QueryFrame

\* The topic name the transport holds for a handle.
TopicNameAnswers(h) == {CNull, CPtr(eCAL[h].topic_bytes)}

\* Lines 156-160: None for a null pointer, else the C string, lossily.
TopicNameAlwaysSome(raw) == Some(ToStringLossy(CStrFromPtr(raw.bytes)))
TopicName(raw) ==
    IF raw.null THEN None ELSE Some(ToStringLossy(CStrFromPtr(raw.bytes)))

\* get_topic_name, lines 153-162.
get_topic_name(raw) ==
    /\ CanQuery
    /\ raw \in TopicNameAnswers(pub.handle)
    /\ qry' = [op |-> "get_topic_name", handle |-> pub.handle, during_send |-> stack[1] # <<>>,
               supplied |-> ~raw.null, raw |-> raw, result |-> TopicName(raw)]
    /\ QueryFrame

\* The eCAL_STopicId the transport holds for a handle, read as a TopicId.
TopicIdOf(h) == [entity_id |-> h, topic_name |-> CStrFromPtr(eCAL[h].topic_bytes)]
NoTopicId == [entity_id |-> 0, topic_name |-> <<>>]
TopicIdAnswers(h) == {[null |-> TRUE, id |-> NoTopicId],
                      [null |-> FALSE, id |-> TopicIdOf(h)]}

\* Lines 172-176: None for a null pointer, else a clone of the struct.
TopicIdResult(raw) == IF raw.null THEN None ELSE Some(raw.id)

\* get_topic_id, lines 169-178.
get_topic_id(raw) ==
    /\ CanQuery
    /\ raw \in TopicIdAnswers(pub.handle)
    /\ qry' = [op |-> "get_topic_id", handle |-> pub.handle, during_send |-> stack[1] # <<>>,
               supplied |-> ~raw.null, raw |-> raw, result |-> TopicIdResult(raw)]
    /\ QueryFrame

\* The eCAL_SDataTypeInformation the transport returns for a handle: null;
\* the strings and descriptor it was given at creation, the descriptor
\* pointer of an empty descriptor null or not; or a struct without contents.
NoTypeInformation ==
    [kind |-> "null", encoding |-> CNull, name |-> CNull, descriptor |-> CNull,
     descriptor_length |-> 0]
StoredTypeInformation(h, empty_ptr) ==
    [kind |-> "stored",
     encoding |-> CPtr(eCAL[h].encoding_bytes),
     name |-> CPtr(eCAL[h].name_bytes),
     descriptor |-> IF eCAL[h].descriptor_bytes = <<>> THEN empty_ptr
                    ELSE CPtr(eCAL[h].descriptor_bytes),
     descriptor_length |-> Len(eCAL[h].descriptor_bytes)]
TypeInformationAnswers(h) ==
    {NoTypeInformation,
     StoredTypeInformation(h, CNull), StoredTypeInformation(h, CPtr(<<>>)),
     [NoTypeInformation EXCEPT !.kind = "blank"]}

\* Lines 195-205: an empty String for a null pointer, else the C string,
\* lossily.
InfoStringRaw(ptr) == IF ptr.null THEN <<>> ELSE ptr.bytes
InfoString(ptr) ==
    IF ptr.null THEN <<>> ELSE ToStringLossy(CStrFromPtr(ptr.bytes))

\* Lines 207-212: no bytes for a null pointer or a zero length, else
\* descriptor_length bytes from the pointer.
InfoDescriptor(ptr, descriptor_length) ==
    IF ptr.null \/ descriptor_length = 0 THEN <<>>
    ELSE SubSeq(ptr.bytes, 1, descriptor_length)

\* Lines 188-218: None for a null pointer, else the DataTypeInfo read from
\* the struct.
DataTypeInformation(raw) ==
    IF raw.kind = "null" THEN None
    ELSE Some([encoding |-> InfoString(raw.encoding),
               type_name |-> InfoString(raw.name),
               descriptor |-> InfoDescriptor(raw.descriptor, raw.descriptor_length)])

\* get_data_type_information, lines 186-220.
get_data_type_information(raw) ==
    /\ CanQuery
    /\ raw \in TypeInformationAnswers(pub.handle)
    /\ qry' = [op |-> "get_data_type_information", handle |-> pub.handle, during_send |-> stack[1] # <<>>,
               supplied |-> raw.kind # "null", raw |-> raw,
               result |-> DataTypeInformation(raw)]
    /\ QueryFrame

\* A publisher of any topic and type information, sending with and without
\* a writer and queried between its sends and from inside its writer's
\* callbacks, the transport free in its answers.
QueryDataTypes ==
    {[encoding |-> <<>>, type_name |-> <<>>, descriptor |-> <<>>],
     [encoding |-> <<97>>, type_name |-> <<195, 169>>, descriptor |-> <<9, 8>>],
     [encoding |-> <<195, 169>>, type_name |-> <<97>>, descriptor |-> <<>>],
     [encoding |-> <<97, NUL, 98>>, type_name |-> <<97>>, descriptor |-> <<9>>],
     [encoding |-> <<97>>, type_name |-> <<NUL>>, descriptor |-> <<>>]}
QueryTopics == {<<116>>, <<195, 169>>}
QueryWriters == {w \in LifeWriters : w.kind = "binary"}

NextQuery ==
    \/ /\ pub.state \in {"none", "dropped"}
       /\ \E topic_name \in QueryTopics, data_type \in QueryDataTypes :
             Publisher_new(topic_name, data_type.encoding, data_type.type_name,
                           data_type.descriptor, NextHandle)
    \/ \E count \in SubscriberCounts : get_subscriber_count(count)
    \/ CanQuery /\ \E raw \in TopicNameAnswers(pub.handle) : get_topic_name(raw)
    \/ CanQuery /\ \E raw \in TopicIdAnswers(pub.handle) : get_topic_id(raw)
    \/ CanQuery /\ \E raw \in TypeInformationAnswers(pub.handle) :
          get_data_type_information(raw)
    \/ \E ret \in {0, 1} : send(<<1>>, Auto, ret)
    \/ send_result
    \/ send_ret
    \/ \E w \in QueryWriters :
          pub.state = "alive" /\ snd.pc = "idle"
          /\ send_payload_writer(1, w, Auto)
    \/ SendSteps(1, {MaxSize})
    \/ drop_delete
    \/ drop_fields

\* =========================================================== format adapters

\* Result<T, E> of a library call.
Err == [ok |-> FALSE]
Ok(v) == [ok |-> TRUE, value |-> v]

\* Result::ok(): Some of the value, None for an error.
ResultUnwrap(r) == IF r.ok THEN Some(r.value) ELSE [some |-> FALSE, panic |-> TRUE]
ResultOk(r) == IF r.ok THEN Some(r.value) ELSE None

\* ---- raw bytes: BytesMessage { data }

\* to_bytes, lines 61-67: a fresh Arc<[u8]> with a copy of the data.
BytesMessage_to_bytes(m) == [i \in 1..Len(m.data) |-> m.data[i]]

\* from_bytes, lines 42-45: always Some, borrowing the slice.
BytesMessage_from_bytes(bytes) == Some([T |-> "BytesMessage", data |-> bytes])

\* ---- JSON: JsonMessage<bool>, through serde_json

\* serde_json::to_vec(&bool): the text true or false.
JsonTrue == <<116, 114, 117, 101>>
JsonFalse == <<102, 97, 108, 115, 101>>
JsonWhitespace == {32, 10, 13, 9}
serde_json_to_vec(payload) == Ok(IF payload THEN JsonTrue ELSE JsonFalse)

\* serde_json::from_slice::<bool>(bytes): whitespace, one of the two
\* literals, whitespace, end of input; everything else is an error.
RECURSIVE SkipWhitespace(_)
SkipWhitespace(bytes) ==
    IF bytes # <<>> /\ Head(bytes) \in JsonWhitespace
    THEN SkipWhitespace(Tail(bytes)) ELSE bytes
StartsWith(bytes, lit) ==
    Len(bytes) >= Len(lit) /\ SubSeq(bytes, 1, Len(lit)) = lit
serde_json_from_slice(bytes) ==
    LET start == SkipWhitespace(bytes)
        After(lit) == SkipWhitespace(SubSeq(start, Len(lit) + 1, Len(start)))
    IN  IF StartsWith(start, JsonTrue)
        THEN IF After(JsonTrue) = <<>> THEN Ok(TRUE) ELSE Err
        ELSE IF StartsWith(start, JsonFalse)
        THEN IF After(JsonFalse) = <<>> THEN Ok(FALSE) ELSE Err
        ELSE Err

\* JsonSupport::encode, lines 14-16: to_vec(..).expect(..).
JsonSupport_encode(payload) == serde_json_to_vec(payload).value

\* JsonSupport::decode, lines 17-19: from_slice(..).ok().
JsonSupport_decode(bytes) == ResultOk(serde_json_from_slice(bytes))

\* to_bytes, lines 35-37, and from_bytes, lines 46-48.
JsonMessage_to_bytes(m) == JsonSupport_encode(m.data)
JsonMessage_from_bytes(bytes) ==
    LET p == JsonSupport_decode(bytes)
    IN  IF p.some THEN Some([T |-> "JsonMessage", data |-> p.value]) ELSE p

\* ---- Protobuf: ProtobufMessage<Counter>, through prost, for the message
\* ---- type  message Counter { uint32 value = 1; }

\* The wire types of a key.
Varint == 0
SixtyFourBit == 1
LengthDelimited == 2
StartGroup == 3
EndGroup == 4
ThirtyTwoBit == 5

\* A failed and a successful read from a buffer: the value and what is left.
ReadErr == [ok |-> FALSE, value |-> 0, rest |-> <<>>]
Read(v, rest) == [ok |-> TRUE, value |-> v, rest |-> rest]

\* prost::encoding::encode_varint: seven bits a byte, low bits first, the
\* top bit set on all but the last byte.
RECURSIVE encode_varint(_)
encode_varint(n) ==
    IF n < 128 THEN <<n>> ELSE <<128 + (n % 128)>> \o encode_varint(n \div 128)

\* prost::encoding::decode_varint: an error for an empty or truncated
\* buffer and for a tenth byte of 2 or more. (The varints read here are at
\* most four bytes long, below 2^28.)
RECURSIVE DecodeVarintFrom(_, _, _)
DecodeVarintFrom(buf, count, acc) ==
    IF buf = <<>> THEN ReadErr
    ELSE LET b == Head(buf)
             value == acc + (b % 128) * (128 ^ count)
         IN  IF count = 9 /\ b >= 2 THEN ReadErr
             ELSE IF b < 128 THEN Read(value, Tail(buf))
             ELSE DecodeVarintFrom(Tail(buf), count + 1, value)
decode_varint(buf) == DecodeVarintFrom(buf, 0, 0)

\* prost::encoding::decode_key: the varint key split into tag and wire
\* type; wire types 6 and 7 and tag 0 are errors.
decode_key(buf) ==
    LET key == decode_varint(buf)
    IN  IF ~key.ok THEN ReadErr
        ELSE IF key.value % 8 > ThirtyTwoBit THEN ReadErr
        ELSE IF key.value \div 8 < 1 THEN ReadErr
        ELSE Read([tag |-> key.value \div 8, wire_type |-> key.value % 8], key.rest)

\* prost::encoding::skip_field: pass over a field of an unknown tag.
RECURSIVE skip_field(_, _, _)
RECURSIVE SkipGroup(_, _)
SkipGroup(tag, buf) ==
    LET key == decode_key(buf)
    IN  IF ~key.ok THEN ReadErr
        ELSE IF key.value.wire_type = EndGroup
        THEN IF key.value.tag # tag THEN ReadErr ELSE Read(0, key.rest)
        ELSE LET inner == skip_field(key.value.wire_type, key.value.tag, key.rest)
             IN  IF ~inner.ok THEN ReadErr ELSE SkipGroup(tag, inner.rest)
skip_field(wire_type, tag, buf) ==
    LET len == CASE wire_type = Varint ->
                      LET v == decode_varint(buf)
                      IN  IF v.ok THEN Read(0, v.rest) ELSE ReadErr
                 [] wire_type = ThirtyTwoBit -> Read(4, buf)
                 [] wire_type = SixtyFourBit -> Read(8, buf)
                 [] wire_type = LengthDelimited -> decode_varint(buf)
                 [] wire_type = StartGroup -> SkipGroup(tag, buf)
                 [] wire_type = EndGroup -> ReadErr
    IN  IF ~len.ok THEN ReadErr
        ELSE IF len.value > Len(len.rest) THEN ReadErr
        ELSE Read(0, SubSeq(len.rest, len.value + 1, Len(len.rest)))

\* Counter::merge_field: tag 1 is value, a varint; any other tag is skipped.
merge_field(msg, tag, wire_type, buf) ==
    IF tag = 1
    THEN IF wire_type # Varint THEN ReadErr
         ELSE LET v == decode_varint(buf)
              IN  IF v.ok THEN Read([value |-> v.value], v.rest) ELSE ReadErr
    ELSE LET skipped == skip_field(wire_type, tag, buf)
         IN  IF skipped.ok THEN Read(msg, skipped.rest) ELSE ReadErr

\* Message::merge: fields are read until the buffer is empty.
RECURSIVE merge(_, _)
merge(msg, buf) ==
    IF buf = <<>> THEN Ok(msg)
    ELSE LET key == decode_key(buf)
         IN  IF ~key.ok THEN Err
             ELSE LET field == merge_field(msg, key.value.tag,
                                           key.value.wire_type, key.rest)
                  IN  IF ~field.ok THEN Err ELSE merge(field.value, field.rest)

\* Message::decode starts from Counter::default(); Message::encode writes
\* value, when it is not 0, as key 8 and a varint.
Counter_default == [value |-> 0]
Counter_decode(bytes) == merge(Counter_default, bytes)
Counter_encode_byte(msg) == IF msg.value = 0 THEN <<>> ELSE <<8, msg.value % 256>>
Counter_encode(msg) ==
    IF msg.value = 0 THEN <<>> ELSE <<8>> \o encode_varint(msg.value)

\* to_bytes, lines 110-116, and from_bytes, lines 88-92.
ProtobufMessage_to_bytes(m) == Counter_encode(m.data)
ProtobufMessage_from_bytes(bytes) ==
    LET msg == ResultOk(Counter_decode(bytes))
    IN  IF msg.some THEN Some([T |-> "ProtobufMessage", data |-> msg.value]) ELSE msg

\* ---- the adapters behind the traits

MessageTypes == {"BytesMessage", "JsonMessage", "ProtobufMessage"}

\* PublisherMessage::to_bytes(&self).
to_bytes(m) ==
    CASE m.T = "BytesMessage" -> BytesMessage_to_bytes(m)
      [] m.T = "JsonMessage" -> JsonMessage_to_bytes(m)
      [] m.T = "ProtobufMessage" -> ProtobufMessage_to_bytes(m)

\* SubscriberMessage::from_bytes(bytes, data_type_info); no adapter looks at
\* data_type_info.
from_bytes(T, bytes) ==
    CASE T = "BytesMessage" -> BytesMessage_from_bytes(bytes)
      [] T = "JsonMessage" -> JsonMessage_from_bytes(bytes)
      [] T = "ProtobufMessage" -> ProtobufMessage_from_bytes(bytes)

\* Messages to send: byte payloads (empty, with a NUL, with bytes that are
\* no UTF-8, with JSON text), both JSON values, and counters whose varint
\* takes no, one, two and three bytes.
Messages(T) ==
    CASE T = "BytesMessage" ->
            {[T |-> T, data |-> d] : d \in {<<>>, <<1>>, <<0, 255>>, JsonTrue, <<8, 128>>}}
      [] T = "JsonMessage" -> {[T |-> T, data |-> b] : b \in BOOLEAN}
      [] T = "ProtobufMessage" ->
            {[T |-> T, data |-> [value |-> v]] : v \in {0, 1, 127, 128, 300, 16384}}

\* Received bytes that are no output of to_bytes, by message type, with
\* whether the format takes them for a message of that type.
WellFormedJson ==
    {<<32>> \o JsonTrue, JsonTrue \o <<10>>, <<9, 32>> \o JsonFalse \o <<13, 10>>}
MalformedJson ==
    {<<>>, <<32>>, <<116, 114, 117>>, <<102, 97, 108, 115>>, JsonTrue \o <<101>>,
     <<84, 114, 117, 101>>, <<49>>, <<110, 117, 108, 108>>,
     <<34>> \o JsonTrue \o <<34>>, JsonTrue \o <<32>> \o JsonFalse,
     <<116, 32, 114, 117, 101>>, <<123>>, <<1, 2, 3>>, <<255, 254, 253>>}
WellFormedProtobuf ==
    {<<8, 0>>, <<8, 128, 0>>, <<8, 1, 8, 0>>, <<8, 255, 255, 255, 127>>,
     <<16, 5>>, <<16, 5, 8, 1>>, <<18, 1, 7>>, <<18, 0>>, <<21, 1, 2, 3, 4>>,
     <<17, 1, 2, 3, 4, 5, 6, 7, 8>>, <<27, 28>>, <<27, 16, 5, 28>>,
     <<27, 35, 36, 28>>}
MalformedProtobuf ==
    {<<8>>, <<8, 128>>, <<0>>, <<1, 2, 3>>, <<7>>, <<14>>, <<10, 0>>,
     <<9, 1, 2, 3, 4, 5, 6, 7, 8>>, <<13, 1, 2, 3, 4>>, <<18, 2, 7>>,
     <<21, 1, 2, 3>>, <<17, 1, 2, 3>>, <<27>>, <<27, 36>>, <<27, 35, 28>>,
     <<28>>, <<12>>, <<255, 255, 255>>, <<16>>, <<8, 1, 8>>}
ReceivedBytes ==
    {[T |-> "BytesMessage", bytes |-> b, malformed |-> FALSE] :
        b \in {<<1, 2, 3>>, <<255>>, <<123>>}}
    \cup {[T |-> "JsonMessage", bytes |-> b, malformed |-> FALSE] : b \in WellFormedJson}
    \cup {[T |-> "JsonMessage", bytes |-> b, malformed |-> TRUE] : b \in MalformedJson}
    \cup {[T |-> "ProtobufMessage", bytes |-> b, malformed |-> FALSE] :
            b \in WellFormedProtobuf}
    \cup {[T |-> "ProtobufMessage", bytes |-> b, malformed |-> TRUE] :
            b \in MalformedProtobuf}

\* An adapter at work: a message to encode, or bytes to decode (those of an
\* encoded message or received ones), or the decoded outcome.
NoAdapt == [pc |-> "none", T |-> "none", m |-> None, bytes |-> <<>>,
            malformed |-> FALSE, out |-> None]
AdaptInputs(T) ==
    {[NoAdapt EXCEPT !.pc = "message", !.T = T, !.m = Some(m)] : m \in Messages(T)}
    \cup {[NoAdapt EXCEPT !.pc = "received", !.T = T, !.bytes = r.bytes,
                          !.malformed = r.malformed] :
             r \in {x \in ReceivedBytes : x.T = T}}

\* The publisher side encodes the message and the bytes travel.
Encode ==
    /\ adp.pc = "message"
    /\ adp' = [adp EXCEPT !.pc = "encoded", !.bytes = to_bytes(adp.m.value)]
    /\ UNCHANGED nonAdaptVars

\* The subscriber side decodes the bytes it got.
Decode ==
    /\ adp.pc \in {"encoded", "received"}
    /\ adp' = [adp EXCEPT !.pc = "decoded", !.out = from_bytes(adp.T, adp.bytes)]
    /\ UNCHANGED nonAdaptVars

InitAdapt == adp = NoAdapt

NextAdapt == Encode \/ Decode

\* ============================================================ payload writers

\* What a write call gives: its return value, the buffer and the writer
\* after it; or a panic, which returns nothing.
Written(ok, buf, w) == [ok |-> ok, buf |-> buf, w |-> w, panic |-> FALSE]
Panic(buf, w) == [ok |-> FALSE, buf |-> buf, w |-> w, panic |-> TRUE]

\* A u32 as its two 16-bit halves, hi * 2^16 + lo.
Half == 65536
U32(hi, lo) == [hi |-> hi, lo |-> lo]
U32Max == U32(Half - 1, Half - 1)

\* (c as usize) % m and c % m for a u32 c and a small m.
U32Mod(c, m) == ((c.hi % m) * (Half % m) + c.lo) % m

\* u32::wrapping_add(c, 1)
wrapping_add_stuck(c) ==
    IF c.lo + 1 < Half THEN U32(c.hi, c.lo + 1)
    ELSE IF c.hi + 1 < Half THEN U32(c.hi + 1, 0) ELSE c
wrapping_add(c) ==
    IF c.lo + 1 < Half THEN U32(c.hi, c.lo + 1)
    ELSE U32((c.hi + 1) % Half, 0)

\* ---- BinaryPayload { size, clock }

\* BinaryPayload::new, lines 28-30.
BinaryPayload_new(size) == [kind |-> "binary", size |-> size, clock |-> U32(0, 0)]

\* buf[..self.size].fill(42)
FillAll(buf, size) == [i \in 1..Len(buf) |-> 42]
Fill(buf, size) == [i \in 1..Len(buf) |-> IF i <= size THEN 42 ELSE buf[i]]

\* write_full, lines 38-46.
BinaryPayload_write_full(w, buf) ==
    IF Len(buf) < w.size THEN Written(FALSE, buf, w)
    ELSE Written(TRUE, Fill(buf, w.size), w)

\* write_modified, lines 52-64. The buffer is indexed from 1 here. The
\* remainder of line 58 panics for a divisor of zero.
BinaryPayload_write_modified(w, buf) ==
    IF Len(buf) < w.size THEN Written(FALSE, buf, w)
    ELSE IF w.size = 0 THEN Panic(buf, w)
    ELSE LET idx == U32Mod(w.clock, 1024) % w.size
         IN  Written(TRUE,
                     [buf EXCEPT ![idx + 1] = 48 + U32Mod(w.clock, 10)],
                     [w EXCEPT !.clock = wrapping_add(w.clock)])

\* get_size, lines 69-71.
BinaryPayload_get_size(w) == w.size

\* ---- a writer that implements write_full and get_size only: it copies
\* ---- its data to the head of the buffer and counts its calls

PlainWriter_write_full(w, buf) ==
    LET counted == [w EXCEPT !.calls = @ + 1]
    IN  IF Len(buf) < Len(w.data) THEN Written(FALSE, buf, counted)
        ELSE Written(TRUE,
                     [i \in 1..Len(buf) |-> IF i <= Len(w.data) THEN w.data[i] ELSE buf[i]],
                     counted)
PlainWriter_get_size(w) == Len(w.data)

\* ---- the trait

\* PayloadWriter::write_full and get_size, lines 14 and 23.
write_full(w, buf) ==
    CASE w.kind = "binary" -> BinaryPayload_write_full(w, buf)
      [] w.kind = "plain" -> PlainWriter_write_full(w, buf)
get_size(w) ==
    CASE w.kind = "binary" -> BinaryPayload_get_size(w)
      [] w.kind = "plain" -> PlainWriter_get_size(w)

\* The default write_modified, lines 18-20: self.write_full(buf).
WriteModifiedSkipped(w, buf) == Written(TRUE, buf, w)
PayloadWriter_write_modified(w, buf) == write_full(w, buf)

\* PayloadWriter::write_modified: BinaryPayload overrides it.
write_modified(w, buf) ==
    CASE w.kind = "binary" -> BinaryPayload_write_modified(w, buf)
      [] w.kind = "plain" -> PayloadWriter_write_modified(w, buf)

\* Writers of every size up to MaxSize and buffers of every length up to
\* MaxLen, of zeroes, of the fill byte and of another byte; and a writer of
\* 1024 bytes with the buffer the transport allocates for it.
BufferBytes == {0, 7, 42}
Buffers == UNION {[1..n -> BufferBytes] : n \in 0..MaxLen}
ScenarioWriter == BinaryPayload_new(1024)
\* The clock after no call, after 9, 1023, 1024, 1500, 2^16 and 2^32 - 1
\* calls of write_modified.
Clocks == {U32(0, 0), U32(0, 9), U32(0, 1023), U32(0, 1024), U32(0, 1500), U32(1, 0),
           U32Max}
BinaryWriters ==
    {[BinaryPayload_new(size) EXCEPT !.clock = c] : size \in 0..MaxSize, c \in Clocks}
PlainWriters ==
    {[kind |-> "plain", data |-> d, calls |-> 0] : d \in {<<>>, <<5>>, <<5, 6>>}}

NoWrite == [pc |-> "none", call |-> "none", w |-> None, buf |-> <<>>, out |-> None,
            n |-> 0]
WriteInputs(W) ==
    {[NoWrite EXCEPT !.pc = "input", !.w = Some(w), !.buf = buf] :
        w \in W, buf \in Buffers}
ScenarioInput ==
    [NoWrite EXCEPT !.pc = "sent", !.w = Some(ScenarioWriter)]
ScenarioInputs ==
    {[ScenarioInput EXCEPT !.w = Some([ScenarioWriter EXCEPT !.clock = c])] : c \in Clocks}

\* The transport asks the size of the writer it was given and allocates the
\* buffer.
GetSize ==
    /\ wrt.pc = "sent"
    /\ wrt' = [wrt EXCEPT !.pc = "input",
                          !.buf = [i \in 1..get_size(wrt.w.value) |-> 0]]
    /\ UNCHANGED nonWriterVars

\* write_full(buf) on the writer.
WriteFull ==
    /\ wrt.pc = "input"
    /\ wrt' = [wrt EXCEPT !.pc = "written", !.call = "write_full",
                          !.out = Some(write_full(wrt.w.value, wrt.buf))]
    /\ UNCHANGED nonWriterVars

\* write_modified(buf) on the writer.
WriteModified ==
    /\ wrt.pc = "input"
    /\ wrt' = [wrt EXCEPT !.pc = "written", !.call = "write_modified",
                          !.out = Some(write_modified(wrt.w.value, wrt.buf))]
    /\ UNCHANGED nonWriterVars

\* The transport sends again, with the writer and the buffer as the call
\* left them.
NextSend ==
    /\ wrt.pc = "written" /\ ~wrt.out.value.panic /\ wrt.n < MaxCalls
    /\ wrt' = [wrt EXCEPT !.pc = "input", !.n = @ + 1, !.w = Some(wrt.out.value.w),
                          !.buf = wrt.out.value.buf]
    /\ UNCHANGED nonWriterVars

InitWriter == wrt = NoWrite

NextWriter == GetSize \/ WriteFull \/ WriteModified \/ NextSend

\* ============================================================ typed publisher

\* std::any::type_name::<bool>() and what short_type_name makes of a type
\* name. format_support.rs is not among the sources: its tests
\* (tests/format_support.rs, lines 4-17) expect JsonSupport for
\* rustecal_types_serde::json_message::JsonSupport and TestType for a type
\* nested in two modules, which the text after the last "::" gives; a name
\* without "::" is taken to be kept whole.
TypeNameOfBool == <<98, 111, 111, 108>>
short_type_name(type_name) ==
    LET colons == {i \in 1..(Len(type_name) - 1) :
                      type_name[i] = 58 /\ type_name[i + 1] = 58}
        last == CHOOSE i \in colons : \A j \in colons : j <= i
    IN  IF colons = {} THEN type_name
        ELSE SubSeq(type_name, last + 2, Len(type_name))

\* JsonMessage::<T>::datatype(), json_message.rs lines 28-34, for the T of
\* this type name.
JsonMessage_datatype(type_name) ==
    [encoding |-> <<106, 115, 111, 110>>, type_name |-> short_type_name(type_name),
     descriptor |-> <<>>]

\* PublisherMessage::datatype(): "raw" / "bytes" for BytesMessage, "json" /
\* short_type_name::<bool>() for JsonMessage<bool>, no descriptor.
datatype(T) ==
    CASE T = "BytesMessage" ->
            [encoding |-> <<114, 97, 119>>, type_name |-> <<98, 121, 116, 101, 115>>,
             descriptor |-> <<>>]
      [] T = "JsonMessage" -> JsonMessage_datatype(TypeNameOfBool)

TypedTypes == {"BytesMessage", "JsonMessage"}
TypedTopics == {<<116>>, <<97, NUL, 98>>}
TypedTimestamps == {Auto, Custom(5)}
TypedQueries == {"get_subscriber_count", "get_topic_name", "get_topic_id",
                 "get_data_type_information"}

NoTyped == [exists |-> FALSE, T |-> "none", pc |-> "idle", op |-> "none",
            topic_name |-> <<>>, msg |-> None, w |-> NoWriter, timestamp |-> Auto,
            result |-> "none"]

InitTyped == typed = NoTyped

\* No call on the typed publisher, its publisher or its writer is running.
TypedIdle ==
    /\ typed.pc = "idle" /\ snd.pc = "idle"
    /\ stack[1] = <<>> /\ ~aborted /\ ~unwinding[1]

\* TypedPublisher::new, lines 46-48, up to the call of Publisher::new.
TypedPublisher_new(T, topic_name) ==
    /\ TypedIdle /\ ~typed.exists /\ pub.state \in {"none", "dropped"}
    /\ NextHandle \in HandleIds
    /\ typed' = [NoTyped EXCEPT !.T = T, !.pc = "new", !.op = "new",
                                !.topic_name = topic_name]
    /\ lastNew' = NoNew
    /\ UNCHANGED <<pub, eCAL, mem, deleteCalls, snd>>
    /\ UNCHANGED <<pubVars, subVars, qryVars, adaptVars, writerVars>>

\* Line 47: the DataTypeInfo passed on is T::datatype().
TypedDataType(T) == datatype(T)

\* Line 48: Publisher::new(topic_name, datatype).
TypedPublisher_new_call ==
    /\ typed.pc = "new" /\ lastNew.result = "none"
    /\ \E created \in {0, NextHandle} :
          Publisher_new(typed.topic_name, TypedDataType(typed.T).encoding,
                        TypedDataType(typed.T).type_name,
                        TypedDataType(typed.T).descriptor, created)

\* The ? of line 48: the error of Publisher::new is the error of new.
TryAlwaysOk(result) == "Ok"
Try(result) == result

\* Lines 48-50: Err(e) from Publisher::new returns Err(e), else the typed
\* publisher holds the new publisher.
TypedPublisher_new_ret ==
    /\ typed.pc = "new" /\ lastNew.result # "none"
    /\ typed' = [typed EXCEPT !.pc = "idle", !.result = Try(lastNew.result),
                              !.exists = (Try(lastNew.result) = "Ok")]
    /\ UNCHANGED <<lifeVars, pubVars, subVars, qryVars, adaptVars, writerVars>>

\* The typed publisher goes out of scope: its publisher is dropped.
TypedPublisher_drop ==
    /\ TypedIdle /\ typed.exists
    /\ typed' = NoTyped
    /\ UNCHANGED <<lifeVars, pubVars, subVars, qryVars, adaptVars, writerVars>>

\* send, lines 66-68: the bytes and the timestamp passed to Publisher::send.
TypedSendArgsAuto(m, timestamp) == [data |-> to_bytes(m), timestamp |-> Auto]
TypedSendArgs(m, timestamp) == [data |-> to_bytes(m), timestamp |-> timestamp]

\* TypedPublisher::send, lines 66-69, up to the call of Publisher::send.
TypedPublisher_send(m, timestamp) ==
    /\ TypedIdle /\ typed.exists /\ m.T = typed.T
    /\ typed' = [typed EXCEPT !.pc = "send", !.op = "send", !.msg = Some(m),
                              !.timestamp = timestamp, !.result = "none"]
    /\ UNCHANGED <<lifeVars, pubVars, subVars, qryVars, adaptVars, writerVars>>

\* Line 68: self.publisher.send(&bytes, timestamp).
TypedPublisher_send_call ==
    /\ typed.pc = "send" /\ snd.pc = "idle"
    /\ LET args == TypedSendArgs(typed.msg.value, typed.timestamp)
       IN  \E ret \in {0, 1} : send(args.data, args.timestamp, ret)

\* send_payload_writer, lines 84-90, up to the call of
\* Publisher::send_payload_writer.
TypedPublisher_send_payload_writer(w, timestamp) ==
    /\ TypedIdle /\ typed.exists
    /\ typed' = [typed EXCEPT !.pc = "send_payload_writer",
                              !.op = "send_payload_writer", !.w = w,
                              !.timestamp = timestamp, !.result = "none"]
    /\ UNCHANGED <<lifeVars, pubVars, subVars, qryVars, adaptVars, writerVars>>

\* Line 89: self.publisher.send_payload_writer(writer, timestamp).
TypedPublisher_send_payload_writer_call ==
    /\ typed.pc = "send_payload_writer" /\ stack[1] = <<>>
    /\ send_payload_writer(1, typed.w, typed.timestamp)

\* A query, lines 93-115, up to the call of the publisher's query.
TypedPublisher_query(op) ==
    /\ TypedIdle /\ typed.exists
    /\ typed' = [typed EXCEPT !.pc = "query", !.op = op, !.result = "none"]
    /\ qry' = NoQuery
    /\ UNCHANGED <<lifeVars, pubVars, subVars, adaptVars, writerVars>>

\* Lines 94, 99, 104 and 114: the publisher's query of the same name.
TypedPublisher_query_call ==
    /\ typed.pc = "query" /\ qry.op = "none"
    /\ CASE typed.op = "get_subscriber_count" ->
              \E count \in SubscriberCounts : get_subscriber_count(count)
         [] typed.op = "get_topic_name" ->
              \E raw \in TopicNameAnswers(pub.handle) : get_topic_name(raw)
         [] typed.op = "get_topic_id" ->
              \E raw \in TopicIdAnswers(pub.handle) : get_topic_id(raw)
         [] typed.op = "get_data_type_information" ->
              \E raw \in TypeInformationAnswers(pub.handle) :
                  get_data_type_information(raw)

\* The value the publisher's call returned is the value of the typed call.
TypedPublisher_ret ==
    /\ \/ /\ typed.pc = "send" /\ snd.pc = "returned"
          /\ typed' = [typed EXCEPT !.pc = "idle", !.result = snd.result]
       \/ /\ typed.pc = "send_payload_writer" /\ At(1, {"done"})
          /\ typed' = [typed EXCEPT !.pc = "idle", !.result = Top(1).ret]
       \/ /\ typed.pc = "query" /\ qry.op # "none"
          /\ typed' = [typed EXCEPT !.pc = "idle", !.result = qry.result]
    /\ UNCHANGED <<lifeVars, pubVars, subVars, qryVars, adaptVars, writerVars>>

\* A typed publisher of raw bytes or JSON, created (or not), sending
\* messages and writers, queried and dropped.
NextTyped ==
    \/ \E T \in TypedTypes, topic_name \in TypedTopics : TypedPublisher_new(T, topic_name)
    \/ TypedPublisher_new_call
    \/ TypedPublisher_new_ret
    \/ TypedPublisher_drop
    \/ typed.exists /\ \E m \in Messages(typed.T), timestamp \in TypedTimestamps :
          TypedPublisher_send(m, timestamp)
    \/ TypedPublisher_send_call
    \/ send_result
    \/ typed.pc = "idle" /\ send_ret
    \/ \E w \in QueryWriters, timestamp \in TypedTimestamps :
          TypedPublisher_send_payload_writer(w, timestamp)
    \/ TypedPublisher_send_payload_writer_call
    \/ get_size_cb(1)
    \/ get_size_cb_ret(1)
    \/ \E cb \in {"write_full", "write_modified"} : write_cb(1, cb, MaxSize)
    \/ \E ok \in BOOLEAN : write_cb_ret(1, ok)
    \/ \E r \in {0, 1} : eCAL_Publisher_SendPayloadWriter_ret(1, r)
    \/ send_payload_writer_clear(1)
    \/ typed.pc = "idle" /\ send_payload_writer_ret(1)
    \/ \E op \in TypedQueries : TypedPublisher_query(op)
    \/ TypedPublisher_query_call
    \/ TypedPublisher_ret
    \/ ~typed.exists /\ typed.pc = "idle" /\ drop_delete
    \/ drop_fields

\* ================================================================== claims

Frames(t) == {stack[t][i] : i \in 1..Len(stack[t])}

\* C1: between the sends of a thread the Active Writer Slot is empty: it is
\* empty when no send of the thread is running, it was empty when each send
\* called by the application started, it is empty again once the send has
\* its return value, failed or not, and every callback of a send reaches the
\* writer of that send.
C1_SlotEmptyAroundEverySend ==
    \A t \in Threads :
        /\ Len(stack[t]) = 0 => CURRENT_WRITER[SlotOf(t)] = NoWriter
        /\ Len(stack[t]) > 0 =>
              /\ ~stack[t][1].occupied
              /\ stack[t][1].pc = "done" => CURRENT_WRITER[SlotOf(t)] = NoWriter
        /\ \A f \in Frames(t) :
              f.pc \in {"in_get_size", "in_write"} => f.reached = f.w

\* A send whose writer returned false has returned false and left the slot empty.
C1_Witness ==
    \E t \in Threads :
        /\ Len(stack[t]) = 1
        /\ Top(t).pc = "done" /\ Top(t).wok = "false" /\ Top(t).ret = "false"
        /\ CURRENT_WRITER[SlotOf(t)] = NoWriter

\* C2: in set_callback the old closure is freed only after the new context
\* is registered: outside drop, a freed box is older than the registered one.
C2_OldFreedOnlyAfterNewInstalled ==
    \A b \in Boxes :
        (heap[b] = "freed" /\ appPc \in {"idle", "sc_freed", "sc_boxed"})
            => (registered /\ regCtx \in Boxes /\ regCtx > b)

\* C3: the trampoline never dereferences a closure box that has been freed.
C3_TrampolineNeverReadsFreedClosure == ~uaf

\* C4: drop removes the registration first and frees the owned closure
\* afterwards: after its first statement the registration is gone and the
\* box still live, and once the box is freed the registration is gone.
C4_DropRemovesBeforeFree ==
    /\ appPc = "drop_removed" => (~registered /\ heap[user_data] = "live")
    /\ appPc = "dropped" => (~registered /\ heap[user_data] = "freed")

\* A subscriber dropped after its user callback had been registered and run.
C4_Witness ==
    /\ appPc = "dropped" /\ user_data > Placeholder
    /\ regCtx = user_data /\ calls[user_data] > 0

\* C5: once set_callback(g) has returned, g's box is live and is the
\* registered context, no closure replaced before is invoked again, and a
\* delivery whose call happens between operations invokes exactly g.
C5_ReplacedCallbackNeverInvoked ==
    /\ [](appPc = "idle" =>
            /\ heap[user_data] = "live"
            /\ user_data > Placeholder => (registered /\ regCtx = user_data))
    /\ [][\A b \in Boxes : (regCtx \in Boxes /\ b < regCtx) => calls'[b] = calls[b]]_vars
    /\ [][(dPc = "call" /\ dPc' = "idle" /\ appPc = "idle")
            => (dCtx = user_data /\ uaf' = uaf /\ crashed' = crashed
                /\ calls' = [calls EXCEPT ![user_data] = @ + 1])]_vars

\* The first user callback ran, was replaced, and the second one ran.
C5_Witness ==
    /\ appPc = "idle" /\ user_data = Placeholder + 2
    /\ calls[Placeholder + 1] > 0 /\ calls[Placeholder + 2] > 0

\* C6: after drop the transport holds no registration, no delivery is
\* running, and no closure is invoked and no delivery made any more.
C6_NoDeliveryAfterDrop ==
    /\ [](appPc = "dropped" => (~registered /\ dPc = "idle"))
    /\ [][appPc = "dropped" => (calls' = calls /\ deliveries' = deliveries)]_vars

\* Dropped after a delivery ran, with the transport still having deliveries
\* to make.
C6_Witness ==
    /\ appPc = "dropped" /\ ~crashed
    /\ calls[user_data] > 0 /\ deliveries < MaxDeliveries

\* C7: a writer that returns false makes the callback report a non-zero
\* status and the send return false; a send returns true only when the
\* transport returned 0.
C7_WriterFailureFailsSend ==
    \A t \in Threads : \A f \in Frames(t) :
        /\ f.wok = "false" => f.status # 0
        /\ (f.pc = "done" /\ f.wok = "false") => f.ret = "false"
        /\ (f.pc = "done" /\ f.ret = "true") => f.result = 0

\* write_modified returned false and the send returned false.
C7_Witness ==
    \E t \in Threads :
        /\ Len(stack[t]) > 0 /\ Top(t).pc = "done"
        /\ Top(t).cb = "write_modified" /\ Top(t).wok = "false"
        /\ Top(t).status = -1 /\ Top(t).ret = "false"

\* C8: a send whose write callback got a buffer shorter than the writer's
\* get_size() returns false, whatever the writer.
C8_ShortBufferFailsSend ==
    \A t \in Threads : \A f \in Frames(t) :
        (f.pc = "done" /\ f.cb \in {"write_full", "write_modified"}
            /\ f.reached # NoWriter /\ f.len < f.reached.size)
            => f.ret = "false"

\* C9: a send entered while the slot is occupied returns false (it does not
\* panic or abort), and the occupant is not replaced.
C9_NestedSendReturnsFalse ==
    \A t \in Threads :
        /\ ~unwinding[t] /\ ~aborted
        /\ \A i \in 2..Len(stack[t]) :
              /\ CURRENT_WRITER[SlotOf(t)] = stack[t][1].w
              /\ stack[t][i].pc \in {"ffi", "done"}
              /\ stack[t][i].pc = "done" => stack[t][i].ret = "false"

\* C10: while threads send concurrently, the cell of a thread holds the
\* writer of that thread's send from the stash to the clear, whatever the
\* others stash or clear, and every callback on a thread reached the writer
\* the thread passed.
C10_ThreadsDoNotInterfere ==
    \A t \in Threads : \A f \in Frames(t) :
        /\ f.pc \in {"ffi", "in_get_size", "sized", "in_write", "written", "returned"}
              => CURRENT_WRITER[SlotOf(t)] = f.w
        /\ f.cb # "none" => (f.reached = f.w /\ f.reached.owner = t)

\* One thread has cleared its slot while another is inside its writer.
C10_Witness ==
    \E t \in Threads, u \in Threads :
        /\ t # u /\ Len(stack[t]) > 0 /\ Len(stack[u]) > 0
        /\ Top(t).pc = "done" /\ Top(u).pc = "in_write"
        /\ Top(t).w.kind # Top(u).w.kind
        /\ Top(u).reached = Top(u).w

\* The trampoline call of this step passed the null check.
EnteredPastNullCheck ==
    deliveries' = deliveries + 1 /\ ~NullCheck(dArgs', dCtx')

\* C11: a delivery whose payload does not decode returns from the
\* trampoline at once: no closure is invoked, nothing faults, the
\* subscriber's boxes, owned pointer and registration are as before, and a
\* decodable delivery coming next goes on to the call of the closure.
C11_UndecodablePayloadIsDropped ==
    /\ [][(EnteredPastNullCheck /\ ~dArgs'.decodes)
            => /\ dPc' = "idle"
               /\ dOut'.decode = "none_returned" /\ dOut'.invoked = 0
               /\ dOut'.returned
               /\ UNCHANGED <<heap, user_data, registered, regCtx, appPc,
                              calls, uaf, crashed>>]_vars
    /\ [][(/\ dPc = "idle" /\ dOut.decode = "none_returned"
           /\ EnteredPastNullCheck /\ dArgs'.decodes)
            => (dPc' = "call" /\ dOut'.decode = "some")]_vars

\* An undecodable delivery was dropped under a user callback that an earlier
\* delivery had invoked.
C11_Witness ==
    /\ dPc = "idle" /\ dOut.decode = "none_returned" /\ dOut.returned
    /\ dCtx > Placeholder /\ calls[dCtx] > 0 /\ ~crashed

\* C12: a delivery with non-null payload and context whose bytes decode has,
\* once the trampoline is back in the transport, invoked the registered
\* closure exactly once; until then the trampoline has not returned.
C12_DecodedDeliveryInvokesOnce ==
    (deliveries > 0 /\ ~NullCheck(dArgs, dCtx) /\ dArgs.decodes) =>
        /\ dPc = "call" => (dOut.invoked = 0 /\ ~dOut.returned)
        /\ dPc = "idle" => (/\ dOut.returned /\ dOut.invoked = 1
                            /\ dOut.closure = dCtx /\ dCtx = regCtx)

\* C13: the envelope a closure was invoked with holds the payload decoded
\* from the bytes of this delivery, the topic name behind its topic id, the
\* encoding and type name behind its type information (as Strings, lossily
\* converted) and its send timestamp and clock; a call that invoked nothing
\* passed no envelope.
C13_EnvelopeIsOfThisDelivery ==
    /\ dOut.invoked > 0 =>
          /\ dOut.received.payload = Decoded(dArgs.buffer)
          /\ dOut.received.topic_name = ToStringLossy(dArgs.topic_name)
          /\ dOut.received.encoding = ToStringLossy(dArgs.encoding)
          /\ dOut.received.type_name = ToStringLossy(dArgs.name)
          /\ dOut.received.timestamp = dArgs.send_timestamp
          /\ dOut.received.clock = dArgs.send_clock
    /\ dOut.invoked = 0 => dOut.received = NoReceived

\* The second invocation of a closure, with the second payload, a topic name
\* that is not UTF-8, and the later timestamp and clock.
C13_Witness ==
    /\ dOut.invoked = 1 /\ calls[dCtx] = 2 /\ dOut.closure = dCtx
    /\ dOut.received.payload = Decoded(<<2, 3>>)
    /\ dOut.received.topic_name = <<ReplacementChar, 65>>
    /\ dOut.received.encoding = <<66>>
    /\ dOut.received.timestamp = 20 /\ dOut.received.clock = 2

\* C14: a trampoline call whose payload pointer or context pointer is null
\* returns at once: it has read no payload byte, attempted no decode and
\* invoked no closure, and its step raised no fault and changed nothing of
\* the subscriber.
C14_NullPointersDropSilently ==
    /\ []((deliveries > 0 /\ (dArgs.dataNull \/ dCtx = Null)) =>
            /\ dPc = "idle" /\ dOut.returned
            /\ ~dOut.read /\ dOut.decode = "none" /\ dOut.invoked = 0)
    /\ [][(deliveries' = deliveries + 1 /\ (dArgs'.dataNull \/ dCtx' = Null))
            => UNCHANGED <<heap, user_data, registered, regCtx, appPc, calls,
                           uaf, crashed>>]_vars

\* A delivery with a null payload pointer was dropped under a user callback
\* that an earlier delivery had invoked.
C14_Witness ==
    /\ dArgs.dataNull /\ dCtx > Placeholder /\ dCtx = regCtx
    /\ deliveries > 1 /\ calls[dCtx] > 0
    /\ dOut.returned /\ ~dOut.read /\ ~crashed

\* The window of C15: new has returned Ok and no set_callback or drop has
\* started.
BeforeFirstSetCallback == appPc = "idle" /\ user_data = Placeholder

\* C15: from new returning Ok until the first set_callback the placeholder
\* box is the context registered with the transport, and a delivery that
\* arrives in that window with a payload that decodes is handled by the
\* placeholder: the trampoline runs under that context and calls the
\* placeholder closure once, without a fault.
C15_WindowDeliveryHandledByPlaceholder ==
    (/\ BeforeFirstSetCallback /\ deliveries > 0 /\ dOut.returned
     /\ ~dArgs.dataNull /\ dArgs.decodes) =>
        /\ registered /\ regCtx = Placeholder /\ heap[Placeholder] = "live"
        /\ dCtx = Placeholder
        /\ dOut.invoked = 1 /\ dOut.closure = Placeholder
        /\ ~uaf /\ ~crashed

\* C16: every handle is deleted exactly once, by the drop of its
\* Publisher: a handle is live exactly while its Publisher is alive, has
\* been deleted once when the Publisher is dropped, no call of
\* eCAL_Publisher_Delete happens besides, no send runs on a handle that is
\* not live, and Publisher::new, failed or not, deletes nothing.
C16_HandleDeletedExactlyOnce ==
    /\ [](/\ \A h \in HandleIds :
               /\ eCAL[h].deletes = (IF eCAL[h].state = "deleted" THEN 1 ELSE 0)
               /\ eCAL[h].state = "live" <=> (pub.state = "alive" /\ pub.handle = h)
          /\ deleteCalls = Cardinality({h \in HandleIds : eCAL[h].state = "deleted"})
          /\ pub.state \in {"deleted", "dropped"} => eCAL[pub.handle].state = "deleted"
          /\ snd.pc # "idle" => (snd.handle_state = "live" /\ pub.state = "alive")
          /\ (\E t \in Threads : stack[t] # <<>>) => pub.state = "alive")
    /\ [][pub.state \in {"none", "dropped"} =>
            /\ deleteCalls' = deleteCalls
            /\ \A h \in HandleIds : eCAL'[h].deletes = eCAL[h].deletes]_vars

\* The first publisher was used and dropped, and the next Publisher::new
\* failed on a null handle.
C16_Witness ==
    /\ pub.state = "none" /\ lastNew.result = "Failed to create eCAL_Publisher"
    /\ eCAL[1].state = "deleted" /\ eCAL[1].deletes = 1 /\ deleteCalls = 1

\* C17: Publisher::new returns Err without calling eCAL_Publisher_New when
\* topic name, encoding or type name has an interior NUL, returns Err when
\* eCAL_Publisher_New returns null, and returns Ok only with the non-null
\* handle that call returned.
C17_NewFailsOnNulOrNullHandle ==
    LET Nul(str) == \E i \in DOMAIN str : str[i] = 0
        anyNul == Nul(lastNew.topic_name) \/ Nul(lastNew.encoding)
                     \/ Nul(lastNew.type_name)
    IN  lastNew.result # "none" =>
          /\ anyNul => (lastNew.result # "Ok" /\ lastNew.create_calls = 0)
          /\ ~anyNul => lastNew.create_calls = 1
          /\ (~anyNul /\ lastNew.handle = 0)
                => lastNew.result = "Failed to create eCAL_Publisher"
          /\ lastNew.result = "Ok"
                => (/\ lastNew.handle # 0 /\ pub.handle = lastNew.handle
                    /\ pub.state # "none")
          /\ lastNew.result # "Ok" => pub.state = "none"

\* Publisher::new failed on the NUL in its type name, the third string checked.
C17_Witness ==
    /\ lastNew.result = "Invalid type name" /\ lastNew.type_name = <<97, 0, 98>>
    /\ lastNew.topic_name = <<97>> /\ lastNew.create_calls = 0

\* C18: while a handle is live, every non-null pointer given to the
\* transport at its creation points to a buffer that is allocated, holds
\* the bytes it held then, and is the buffer the Publisher owns.
C18_BuffersOutliveHandle ==
    \A h \in HandleIds :
        eCAL[h].state = "live" =>
            /\ mem[eCAL[h].encoding.gen]["encoding"] =
                  [state |-> "live", bytes |-> eCAL[h].encoding_bytes]
            /\ mem[eCAL[h].name.gen]["type_name"] =
                  [state |-> "live", bytes |-> eCAL[h].name_bytes]
            /\ eCAL[h].descriptor # NullPtr =>
                  mem[eCAL[h].descriptor.gen]["descriptor"] =
                      [state |-> "live", bytes |-> eCAL[h].descriptor_bytes]
            /\ pub._encoding = eCAL[h].encoding
            /\ pub._type_name = eCAL[h].name
            /\ pub._descriptor = eCAL[h].descriptor
            /\ (eCAL[h].descriptor = NullPtr) <=> (eCAL[h].descriptor_length = 0)

\* The second publisher, with a descriptor, has sent and is still alive.
C18_Witness ==
    /\ pub.state = "alive" /\ pub.handle = 2
    /\ eCAL[2].descriptor # NullPtr /\ eCAL[2].encoding_bytes = <<97, 0>>
    /\ snd.pc = "returned"

\* The sends that have called the transport: the copying one and the
\* zero-copy ones.
TransportSends ==
    (IF snd.pc # "idle" THEN {snd} ELSE {})
        \cup {f \in UNION {Frames(t) : t \in Threads} : f.pc \in {"returned", "done"}}

\* C19: with Timestamp::Auto the transport gets a null pointer and assigns
\* the timestamp itself; with Timestamp::Custom(t) the location it gets is
\* still valid when it reads it, and it reads t.
C19_TimestampReachesTransport ==
    \A c \in TransportSends :
        /\ c.timestamp.kind = "Auto" => (c.ts_ptr.null /\ c.seen.by = "transport")
        /\ c.timestamp.kind = "Custom" =>
              (/\ ~c.ts_ptr.null /\ c.seen.by = "caller"
               /\ ~c.seen.dangling /\ c.seen.value = c.timestamp.t)

\* C20: a send that has its return value has called the transport's send
\* entry point once and returns true exactly if that call returned 0; a
\* send that is over leaves no transport call behind.
C20_OneTransportCallPerSend ==
    /\ snd.pc = "idle" => snd.ffi_calls = 0
    /\ snd.pc # "idle" => snd.ffi_calls = 1
    /\ snd.pc = "returned" => (snd.result = "true" <=> snd.ret = 0)
    /\ \A t \in Threads :
          /\ Len(stack[t]) <= 1
          /\ \A f \in Frames(t) :
                /\ f.ffi_calls = (IF f.pc \in {"returned", "done"} THEN 1 ELSE 0)
                /\ f.pc = "done" => (f.ret = "true" <=> f.result = 0)

\* A copying send with a custom timestamp has returned false on a failure
\* of its one transport call.
C20_Witness ==
    /\ snd.pc = "returned" /\ snd.ret = 1 /\ snd.result = "false"
    /\ snd.timestamp = Custom(6) /\ snd.ffi_calls = 1

\* A step in which a query was made: the record of the last query changed.
QueryStep ==
    \/ qry'.op # qry.op
    \/ qry'.handle # qry.handle
    \/ qry'.during_send # qry.during_send
    \/ qry'.raw # qry.raw

\* C21: a query step (get_subscriber_count, get_topic_name, get_topic_id,
\* get_data_type_information), in whatever state it is called, leaves the
\* publisher's handle and its stored encoding, type name and descriptor, the
\* Active Writer Slot and the transport's state as they were.
C21_QueriesChangeNothing ==
    [][QueryStep =>
          UNCHANGED <<pub, mem, CURRENT_WRITER, borrows, eCAL, deleteCalls, snd>>]_vars

\* A query made from inside a writer callback, the slot holding the writer
\* of the send in progress.
C21_Witness ==
    /\ qry.op = "get_data_type_information" /\ qry.during_send
    /\ qry.handle = pub.handle
    /\ InCallback(1) /\ CURRENT_WRITER[SlotOf(1)] # NoWriter

\* C22: a query to which the transport returns a null pointer, whichever of
\* the four it is, returns None, and after it the publisher is alive on a
\* live handle, unchanged, and can be queried and sent on as before.
\* get_topic_name, get_topic_id and get_data_type_information each get null
\* answers; get_subscriber_count gets a number on every call.
C22_QueriesAbsentOnNull ==
    [][(QueryStep /\ ~qry'.supplied) =>
          /\ qry'.result = None
          /\ pub'.state = "alive" /\ eCAL'[pub'.handle].state = "live"
          /\ snd'.pc = "idle"
          /\ UNCHANGED <<pub, eCAL, snd>>]_vars

\* A send that returned true on a publisher whose last query, made before
\* that send, got a null pointer and returned None.
C22_Witness ==
    /\ qry.op = "get_topic_name" /\ ~qry.supplied /\ qry.result = None
    /\ snd.pc = "returned" /\ snd.result = "true" /\ snd.handle = qry.handle

\* C23: when Publisher::new succeeded with a DataTypeInfo d (its descriptor
\* empty or not) and the transport answers with the type information it
\* stored at creation, get_data_type_information returns Some of a value
\* whose encoding, type_name and descriptor equal those of d.
C23_TypeInformationRoundTrip ==
    (/\ qry.op = "get_data_type_information" /\ qry.raw.kind = "stored"
     /\ lastNew.result = "Ok" /\ qry.handle = lastNew.handle) =>
        qry.result = Some([encoding |-> lastNew.encoding,
                           type_name |-> lastNew.type_name,
                           descriptor |-> lastNew.descriptor])

\* The round trip of a non-ASCII encoding and an empty descriptor, the
\* transport returning a non-null pointer with length 0 for the latter.
C23_Witness ==
    /\ qry.op = "get_data_type_information" /\ qry.raw.kind = "stored"
    /\ lastNew.result = "Ok" /\ qry.handle = lastNew.handle
    /\ lastNew.encoding = <<195, 169>> /\ lastNew.descriptor = <<>>
    /\ ~qry.raw.descriptor.null
    /\ qry.result.some /\ qry.result.value.encoding = <<195, 169>>
    /\ qry.result.value.descriptor = <<>>

\* C24: for as long as a Publisher is alive, whatever sends, zero-copy
\* sends and queries have been made on it, the encoding, type name and
\* descriptor the transport holds for its handle are those it was
\* constructed with, behind the pointers registered then.
C24_TypeMetadataImmutable ==
    pub.state = "alive" =>
        LET h == pub.handle IN
        /\ lastNew.result = "Ok" /\ lastNew.handle = h
        /\ eCAL[h].encoding_bytes = Append(lastNew.encoding, NUL)
        /\ eCAL[h].name_bytes = Append(lastNew.type_name, NUL)
        /\ eCAL[h].descriptor_bytes = lastNew.descriptor
        /\ eCAL[h].descriptor_length = Len(lastNew.descriptor)
        /\ eCAL[h].encoding = pub._encoding /\ eCAL[h].name = pub._type_name
        /\ eCAL[h].descriptor = pub._descriptor
        /\ mem[h]["encoding"] = [state |-> "live", bytes |-> eCAL[h].encoding_bytes]
        /\ mem[h]["type_name"] = [state |-> "live", bytes |-> eCAL[h].name_bytes]
        /\ lastNew.descriptor # <<>> =>
              mem[h]["descriptor"] = [state |-> "live", bytes |-> lastNew.descriptor]

\* A publisher with a descriptor that was queried from inside a callback of
\* a zero-copy send and has since returned from a copying send.
C24_Witness ==
    /\ pub.state = "alive" /\ lastNew.descriptor = <<9, 8>>
    /\ qry.op # "none" /\ qry.during_send /\ qry.handle = pub.handle
    /\ snd.pc = "returned" /\ snd.handle = pub.handle
    /\ eCAL[pub.handle].descriptor_bytes = <<9, 8>>

\* C28: for each adapter in the repository (raw bytes, JSON, Protobuf) and
\* every message m, from_bytes(to_bytes(m)) is Some of a value equal to m.
C28_DecodeOfEncodeIsMessage ==
    (adp.pc = "decoded" /\ adp.m.some) => adp.out = adp.m

\* The round trip of a counter whose varint takes two bytes.
C28_Witness ==
    /\ adp.pc = "decoded" /\ adp.m.some /\ adp.T = "ProtobufMessage"
    /\ adp.m.value.data.value = 300 /\ adp.bytes = <<8, 172, 2>>
    /\ adp.out = Some([T |-> "ProtobufMessage", data |-> [value |-> 300]])

\* C29: for every byte sequence from_bytes returns Some(value) or None and
\* nothing else (no panic), and for malformed or truncated bytes None.
C29_DecodeNeverRaises ==
    adp.pc = "decoded" =>
        /\ adp.out = None \/ (adp.out.some /\ DOMAIN adp.out = {"some", "value"})
        /\ adp.malformed => adp.out = None

\* Truncated JSON and a truncated Protobuf varint were decoded to None, and
\* well-formed received bytes to Some.
C29_Witness ==
    /\ adp.pc = "decoded" /\ adp.malformed /\ adp.out = None
    /\ \/ adp.T = "JsonMessage" /\ adp.bytes = <<116, 114, 117>>
       \/ adp.T = "ProtobufMessage" /\ adp.bytes = <<8, 128>>

\* C25: a call on TypedPublisher<T> is the call on its Publisher: send(m,
\* ts) makes the one transport call of Publisher::send(T::to_bytes(m), ts)
\* and returns its boolean, send_payload_writer(w, ts) runs
\* Publisher::send_payload_writer(w, ts) and returns its boolean, and a
\* query returns what the publisher's query of that name returned.
C25_TypedPublisherDelegates ==
    /\ (typed.op = "send" /\ snd.pc # "idle") =>
          /\ snd.data = to_bytes(typed.msg.value) /\ snd.sent = snd.data
          /\ snd.timestamp = typed.timestamp
          /\ snd.handle = pub.handle /\ snd.ffi_calls = 1
          /\ typed.pc = "idle" => typed.result = snd.result
    /\ (typed.op = "send_payload_writer" /\ stack[1] # <<>>) =>
          /\ Len(stack[1]) = 1
          /\ Top(1).w = typed.w /\ Top(1).timestamp = typed.timestamp
          /\ typed.pc = "idle" => typed.result = Top(1).ret
    /\ (typed.op \in TypedQueries /\ typed.pc = "idle") =>
          /\ qry.op = typed.op /\ qry.handle = pub.handle
          /\ typed.result = qry.result

\* A typed send of the JSON message true with a custom timestamp returned
\* true, the transport having been given the text true.
C25_Witness ==
    /\ typed.op = "send" /\ typed.pc = "idle" /\ snd.pc = "returned"
    /\ typed.T = "JsonMessage" /\ typed.msg.value.data = TRUE
    /\ snd.sent = JsonTrue /\ typed.timestamp = Custom(5)
    /\ typed.result = "true"

\* C26: TypedPublisher::<T>::new(topic) calls Publisher::new with the given
\* topic name and T::datatype(); it returns Err exactly when that call
\* does, with its error, and then no typed publisher (and no publisher)
\* exists; otherwise the typed publisher holds the new publisher.
C26_TypedNewForwards ==
    typed.op = "new" =>
        /\ lastNew.result # "none" =>
              /\ lastNew.topic_name = typed.topic_name
              /\ lastNew.encoding = datatype(typed.T).encoding
              /\ lastNew.type_name = datatype(typed.T).type_name
              /\ lastNew.descriptor = datatype(typed.T).descriptor
        /\ typed.pc = "idle" =>
              /\ typed.result = lastNew.result
              /\ typed.exists <=> lastNew.result = "Ok"
              /\ typed.exists <=> pub.state = "alive"
        /\ typed.pc = "new" => ~typed.exists

\* new returned the transport's refusal for a JSON topic, and no typed
\* publisher exists.
C26_Witness ==
    /\ typed.op = "new" /\ typed.pc = "idle" /\ typed.T = "JsonMessage"
    /\ typed.result = "Failed to create eCAL_Publisher"
    /\ lastNew.create_calls = 1 /\ lastNew.encoding = <<106, 115, 111, 110>>
    /\ ~typed.exists /\ pub.state # "alive"

\* C27: for a writer that does not override write_modified,
\* write_modified(buf) has the return value of write_full(buf) and leaves
\* the buffer and the writer as write_full(buf) does, for every buffer.
C27_DefaultWriteModifiedIsWriteFull ==
    (wrt.pc = "written" /\ wrt.call = "write_modified" /\ wrt.w.value.kind = "plain") =>
        LET full == write_full(wrt.w.value, wrt.buf)
        IN  /\ wrt.out.value.ok = full.ok
            /\ wrt.out.value.buf = full.buf
            /\ wrt.out.value.w = full.w

\* A default write_modified that wrote the writer's two bytes into a buffer
\* of two bytes and counted the call.
C27_Witness ==
    /\ wrt.pc = "written" /\ wrt.call = "write_modified"
    /\ wrt.w.value.kind = "plain"
    /\ wrt.w.value.data = <<5, 6>> /\ wrt.buf = <<7, 7>>
    /\ wrt.out.value = Written(TRUE, <<5, 6>>, [wrt.w.value EXCEPT !.calls = 1])

\* C30: BinaryPayload::write_full on a buffer of at least get_size() bytes
\* sets exactly the first get_size() bytes to 0x2A, leaves the later bytes as
\* they were and returns true; on a shorter buffer it returns false and
\* leaves the buffer as it was; the writer of size 1024, sent once, gives a
\* payload of 1024 bytes 0x2A.
C30_WriteFullFillsExactlySize ==
    (wrt.pc = "written" /\ wrt.call = "write_full" /\ wrt.w.value.kind = "binary") =>
        LET size == wrt.w.value.size
            out == wrt.out.value
        IN  /\ Len(out.buf) = Len(wrt.buf)
            /\ Len(wrt.buf) >= size =>
                  /\ out.ok
                  /\ \A i \in 1..Len(wrt.buf) :
                        out.buf[i] = IF i <= size THEN 42 ELSE wrt.buf[i]
            /\ Len(wrt.buf) < size => ~out.ok /\ out.buf = wrt.buf
            /\ wrt.w.value = ScenarioWriter =>
                  /\ out.ok /\ Len(out.buf) = 1024
                  /\ \A i \in 1..1024 : out.buf[i] = 42

\* The writer of 1024 bytes was sent and filled its buffer.
C30_Witness ==
    /\ wrt.pc = "written" /\ wrt.call = "write_full"
    /\ wrt.w.value.kind = "binary" /\ wrt.w.value.size = 1024
    /\ wrt.out.value.ok /\ Len(wrt.out.value.buf) = 1024

\* C31: a BinaryPayload::write_modified that returns true has changed no
\* byte of the buffer but the one at index (clock mod 1024) mod size, which
\* is now '0' + (clock mod 10), and has advanced the clock by one modulo
\* 2^32; get_size() is the same after every write_full and write_modified.
C31_WriteModifiedOneByteAndClock ==
    (wrt.pc = "written" /\ wrt.w.value.kind = "binary") =>
        LET w == wrt.w.value
            out == wrt.out.value
            c == w.clock
            idx == ((c.lo % 1024) % w.size) + 1
        IN  /\ get_size(out.w) = get_size(w)
            /\ (wrt.call = "write_modified" /\ out.ok) =>
                  /\ Len(out.buf) = Len(wrt.buf)
                  /\ \A i \in 1..Len(wrt.buf) : i # idx => out.buf[i] = wrt.buf[i]
                  /\ out.buf[idx] = 48 + (((c.hi % 10) * 65536 + c.lo) % 10)
                  /\ c.lo < 65535 => out.w.clock = U32(c.hi, c.lo + 1)
                  /\ (c.lo = 65535 /\ c.hi < 65535) => out.w.clock = U32(c.hi + 1, 0)
                  /\ (c.lo = 65535 /\ c.hi = 65535) => out.w.clock = U32(0, 0)
            /\ (wrt.call = "write_full" /\ out.ok) => out.w.clock = c

\* The writer of 1024 bytes with clock 1500 wrote '0' at index 476 of its
\* filled buffer, and a writer with clock 2^32 - 1 went back to clock 0.
C31_Witness ==
    /\ wrt.pc = "written" /\ wrt.call = "write_modified"
    /\ wrt.w.value.kind = "binary" /\ wrt.out.value.ok
    /\ \/ /\ wrt.w.value.size = 1024 /\ wrt.w.value.clock = U32(0, 1500)
          /\ wrt.n = 1 /\ wrt.buf[477] = 42 /\ wrt.out.value.buf[477] = 48
       \/ /\ wrt.w.value.clock = U32Max /\ wrt.out.value.w.clock = U32(0, 0)
          /\ wrt.out.value.buf = <<7, 53>>

\* C33: every closure box a TypedSubscriber allocated is destroyed exactly
\* once: a box that is freed was live, and once the subscriber is dropped,
\* or new has returned its error, no box is left live.
C33_BoxesFreedExactlyOnce ==
    [][/\ \A b \in Boxes :
             (heap[b] # "freed" /\ heap'[b] = "freed") => heap[b] = "live"
       /\ (appPc' \in {"sc_freed", "dropped"} /\ appPc' # appPc) =>
             (heap[user_data] = "live" /\ heap'[user_data] = "freed")
       /\ appPc' \in {"dropped", "new_failed"} =>
             \A b \in Boxes : heap'[b] # "live"]_vars

\* C34: the trampoline copies the payload buffer before it decodes: the
\* copy is the buffer's content at the start of the delivery, the payload
\* handed to the closure is decoded from the copy, and neither changes when
\* the transport overwrites or releases the buffer, during the call or
\* after it.
C34_PayloadIsACopy ==
    [][/\ (deliveries' = deliveries + 1 /\ dOut'.read) => dOut'.msg_arc = dArgs'.buffer
       /\ (deliveries' = deliveries /\ dOut.read) => dOut'.msg_arc = dOut.msg_arc
       /\ (dOut.invoked = 0 /\ dOut'.invoked > 0) =>
             dOut'.received.payload = Decoded(dOut.msg_arc)
       /\ (deliveries' = deliveries /\ dOut.invoked > 0) =>
             dOut'.received.payload = dOut.received.payload]_vars

\* The closure was handed the payload of the buffer as it was at the start,
\* and the transport has released the buffer since.
C34_Witness ==
    /\ dOut.invoked = 1 /\ dOut.returned /\ ~uaf
    /\ dOut.msg_arc = <<1>> /\ dOut.received.payload = Decoded(<<1>>)
    /\ dArgs.buffer = <<>>

\* C35: the trampoline dereferences no null pointer: a delivery with a null
\* payload, context, type information or topic id pointer invokes no
\* closure and returns to the transport (the only fault there can be is the
\* use of a freed box).
C35_NoNullDereference ==
    (deliveries > 0 /\ (dArgs.dataNull \/ dArgs.infoNull \/ dArgs.topicNull \/ dCtx = Null)) =>
        /\ crashed => uaf
        /\ dOut.invoked = 0
        /\ (dPc = "idle" /\ ~crashed) => dOut.returned

\* C36: a callback entry point called on a thread that is in no
\* send_payload_writer finds the thread's slot empty, whatever the other
\* threads are sending: get_size_cb returns 0, write_full_cb and write_mod_cb
\* return -1, and no writer is entered.
C36_CallbacksOutsideSendFail ==
    \A t \in Threads : \A f \in Frames(t) :
        f.w = NoWriter =>
            /\ CURRENT_WRITER[SlotOf(t)] = NoWriter /\ borrows[SlotOf(t)] = 0
            /\ f.reached = NoWriter /\ f.wok = "none"
            /\ f.pc \in {"ffi", "sized", "written"}
            /\ f.pc \in {"sized", "written"} => f.size = 0
            /\ f.pc = "written" => f.status = -1

\* write_mod_cb has returned -1 on a thread outside any send while another
\* thread is inside its writer.
C36_Witness ==
    \E t \in Threads, u \in Threads :
        /\ t # u /\ Len(stack[t]) > 0 /\ Len(stack[u]) > 0
        /\ Top(t).w = NoWriter /\ Top(t).pc = "written"
        /\ Top(t).cb = "write_modified" /\ Top(t).status = -1
        /\ Top(u).pc = "in_write" /\ Top(u).reached = Top(u).w

\* C37: for every size, 0 included, and every buffer, write_full and
\* write_modified of BinaryPayload return a boolean: neither panics.
C37_WritesNeverFault ==
    (wrt.pc = "written" /\ wrt.w.value.kind = "binary") => ~wrt.out.value.panic

\* ========================================================== specifications

Init ==
    /\ InitPub /\ InitSub /\ InitLife /\ InitQuery /\ InitAdapt /\ InitWriter
    /\ InitTyped

SpecPub == Init /\ [][NextPub]_vars

SpecPar == Init /\ [][NextPar]_vars

SpecSub == Init /\ [][NextSub]_vars

SpecWire == Init /\ [][NextWire]_vars

SpecLife == Init /\ [][NextLife]_vars

SpecQuery == Init /\ [][NextQuery]_vars

SpecTyped == Init /\ [][NextTyped]_vars

\* The adapters applied to every message and every received byte sequence.
InitInputs ==
    /\ InitPub /\ InitSub /\ InitLife /\ InitQuery /\ InitWriter /\ InitTyped
    /\ \E T \in MessageTypes : adp \in AdaptInputs(T)

SpecAdapt == InitInputs /\ [][NextAdapt]_vars

\* The writers applied to every buffer.
SpecStray == Init /\ [][NextStray]_vars

SpecNull == Init /\ [][NextNull]_vars

SpecCopy == Init /\ [][NextCopy]_vars

\* A typed subscriber yet to be constructed.
InitNew ==
    /\ InitPub /\ InitBoxes /\ InitLife /\ InitQuery /\ InitAdapt /\ InitWriter
    /\ InitTyped

SpecBox == InitNew /\ [][NextBox]_vars

InitWrites ==
    /\ InitPub /\ InitSub /\ InitLife /\ InitQuery /\ InitAdapt /\ InitTyped
    /\ \/ wrt \in WriteInputs(BinaryWriters)
       \/ wrt \in WriteInputs(PlainWriters)
       \/ wrt \in ScenarioInputs

SpecWriter == InitWrites /\ [][NextWriter]_vars

====
